---- MODULE Spec2Model ----
(***************************************************************************)
(* Caissa chess engine: the transposition table (TranspositionTable.cpp)   *)
(* and the search orchestrator (Search.cpp: DoSearch, Search_Internal,     *)
(* AspirationWindowSearch, CheckStopCondition) as state machines.          *)
(***************************************************************************)
EXTENDS Integers, Naturals, Sequences, FiniteSets, TLC

VARIABLES
    entries,    \* TranspositionTable::entries, a vector of TranspositionTableEntry
    last,       \* the last table operation: its arguments and what it returned
    writers,    \* per thread inside Write: where it is, the entry it was passed
    copyOrder,  \* the order in which the build stores the fields of an entry
    param,      \* DoSearch's arguments: the root position's legal moves and SearchParam
    mStopSearch,    \* Search::mStopSearch
    search,     \* DoSearch's frame: where the call is, numPvLines
    outResult,  \* DoSearch's outResult
    th,         \* per thread, the frame of Search_Internal and AspirationWindowSearch
    stopRequested,  \* StopSearch() was called since DoSearch was entered
    node,       \* the frame of one NegaMax call: its NodeInfo, locals and calls made
    asp,        \* the score window of one AspirationWindowSearch call
    stats,      \* Search::Stats and the ThreadStats of every thread
    cache,      \* one NodeCacheEntry
    rebias,     \* one score on its way through ScoreToTT, the table and ScoreFromTT
    nn,         \* a position and the accumulators of its two perspectives
    see,        \* the frame of one StaticExchangeEvaluation call
    walk,       \* the frame of one NegaMax call on a path, with depths and table writes
    loop,       \* the exits of the iterative deepening loops of one DoSearch call
    res,        \* the SearchResult of one DoSearch call and the accesses to it
    slots,      \* NodeCache: its entries and its generation
    tm,         \* the time manager's state over the iterations of one search
    zob         \* a Position with its incrementally updated hash

ttVars == <<entries, last>>

concVars == <<writers, copyOrder>>

searchVars == <<param, mStopSearch, search, outResult, th, stopRequested>>

lateVars == <<loop, res, slots, tm, zob>>

extVars == <<nn, see, walk, lateVars>>

auxVars == <<node, asp, stats, cache, rebias, extVars>>

baseVars == <<ttVars, concVars, searchVars, node, asp, stats, cache, rebias>>

\* what a node of the search path leaves alone
walkRest == <<ttVars, concVars, param, search, outResult, th, stopRequested, node, asp,
              stats, cache, rebias, nn, see, lateVars>>

vars == <<entries, last, writers, copyOrder, param, mStopSearch, search, outResult, th,
          stopRequested, node, asp, stats, cache, rebias, nn, see, walk, loop, res,
          slots, tm, zob>>

(***************************************************************************)
(* Bounds of the table model.                                              *)
(***************************************************************************)
MaxHash == 2        \* position hashes are 0..MaxHash
MaxSize == 2        \* the table has 0 entries or a power of two <= MaxSize
MaxEntryDepth == 1  \* stored depths are 0..MaxEntryDepth
MaxScore == 1       \* stored scores are 0..MaxScore
NumWriters == 2     \* threads that call Write concurrently

(***************************************************************************)
(* Bounds of the search model.                                             *)
(***************************************************************************)
MaxLegalMoves == 3  \* the root position has 1..MaxLegalMoves legal moves
MaxPvLines == 2     \* SearchParam::numPvLines is 1..MaxPvLines
MaxDepth == 2       \* SearchParam::limits.maxDepth is 1..MaxDepth
MaxExcluded == 1    \* SearchParam::excludedMoves holds at most MaxExcluded moves
MaxRetries == 1     \* aspiration re-searches modelled per root move
MaxHeight == 1      \* NodeInfo::height of the nodes followed is 0..MaxHeight
MaxNodes == 66       \* node entries of one search in the statistics model
MaxTimedNodes == 258 \* node entries of the thread whose clock checks are followed
CacheWordBits == 4   \* bits of a node counter of the node cache (64 in the program)
CacheMoves == 2      \* NodeCacheEntry::MaxMoves (64 in the program)
MaxMoves == 2       \* moves searched in one node
MaxPlies == 2       \* moves made from a start position of the accumulator model
AccumulatorSize == 2 \* elements of an accumulator
MaxAttackers == 2   \* pieces of the defender around the square of an exchange
MaxRootDepth == 8   \* thread.rootDepth is 1 or MaxRootDepth on the path followed
MaxWalkHeight == 4  \* NodeInfo::height of the nodes of the path is 0..MaxWalkHeight
MaxPicks == 2       \* moves the picker yields in one node of the path
MaxIterations == 9  \* iterations of the iterative deepening loop that are told apart
MaxResultLines == 2 \* PV lines of the searches whose result vector is followed
MaxResultDepth == 2 \* and their limits.maxDepth is 0..MaxResultDepth
NodeCacheSize == 2  \* NodeCache::Size, a power of two
MaxCachePositions == 3 \* positions asked of the node cache are 1..MaxCachePositions
MaxGeneration == 2  \* OnNewSearch calls after a Reset
MaxEntryStats == 1  \* updates of the statistics of one entry
MaxUpdates == 13    \* iterations of a search that the time manager is followed over
MaxHashPlies == 3   \* moves and null moves made from a start position of the hash model

\* Search.cpp: static const int32_t AspirationWindowDepthStart = 6
AspirationWindowDepthStart == 6
AspirationWindowMaxSize == 500
AspirationWindowStart == 40
AspirationWindowEnd == 20
AspirationWindowStep == 4
SingularitySearchMinDepth == 8
SingularExtensionScoreMarigin == 5
BetaMarginBias == 5
AlphaMarginBias == 2000

\* ScoreType is a signed 16-bit integer with these special values
CheckmateValue == 32000
InfValue == 32767
InvalidValue == 32767
TablebaseWinValue == 31000
KnownWinValue == 25000
MaxSearchDepth == 256

\* int16_t holds x
FitsScoreType(x) == x >= -(2^15) /\ x <= 2^15 - 1

Max(x, y) == IF x >= y THEN x ELSE y

Min(x, y) == IF x <= y THEN x ELSE y

Abs(x) == IF x >= 0 THEN x ELSE -x

\* mThreadData: the main thread (threadID 0) and one helper
ThreadIds == {0, 1}

\* a default-constructed PvLine (no move). A line is its first move, with the
\* iteration depth of the pass that produced it and whether that pass saw the
\* stop condition (an inner CheckStopCondition returned true)
NoLine == [move |-> 0, score |-> InvalidValue, iter |-> 0, aborted |-> FALSE]

\* n default-constructed PvLines (SearchResult::resize)
NoLines(n) == [i \in 1..n |-> NoLine]

\* a thread that Search_Internal has not been started on
OffThread ==
    [pc |-> "off", depth |-> 0, pvIndex |-> 0, pvMovesSoFar |-> {}, aborted |-> FALSE,
     pvLine |-> NoLine, finalPvLine |-> NoLine, windowed |-> FALSE, retries |-> 0,
     tempResult |-> <<>>, prevPvLines |-> <<>>, finishSearchAtDepth |-> FALSE]

\* the arguments of a DoSearch call with one legal root move and default limits
DefaultParam ==
    [numLegalMoves |-> 1, excludedMoves |-> {}, numPvLines |-> 1, maxDepth |-> 1,
     numThreads |-> 1, isPonder |-> FALSE, analysisMode |-> FALSE,
     maxTimeValid |-> FALSE, maxNodesSet |-> FALSE, idealTimeValid |-> FALSE,
     isInCheck |-> FALSE]

\* no search is running
SearchIdle ==
    /\ param = DefaultParam
    /\ mStopSearch = FALSE
    /\ search = [pc |-> "idle", numPvLines |-> 0]
    /\ outResult = <<>>
    /\ th = [t \in ThreadIds |-> OffThread]
    /\ stopRequested = FALSE

\* no NegaMax node, aspiration window, statistics, node cache entry or stored
\* score is modelled
LateIdle == loop = <<>> /\ res = <<>> /\ slots = <<>> /\ tm = <<>> /\ zob = <<>>

ExtIdle == nn = <<>> /\ see = <<>> /\ walk = <<>> /\ LateIdle

NoNode == [fn |-> "none", pc |-> "idle", called |-> {}]

NoAsp == [pc |-> "idle"]

AuxIdle ==
    /\ node = NoNode
    /\ asp = NoAsp
    /\ stats = <<>>
    /\ cache = <<>>
    /\ rebias = <<>>
    /\ ExtIdle

\* TranspositionTableEntry::Flag_Invalid: the flag of a zeroed entry
Flag_Invalid == 0

\* the flags of a valid entry (Exact, LowerBound, UpperBound)
ValidFlags == {1, 2, 3}

Hashes == 0..MaxHash

\* the best moves a caller stores (0 is the invalid move of a zeroed entry)
BestMoves == {1}

RECURSIVE IsPowerOfTwo(_)
IsPowerOfTwo(n) ==
    IF n = 1 THEN TRUE
    ELSE IF n <= 0 \/ n % 2 = 1 THEN FALSE
    ELSE IsPowerOfTwo(n \div 2)

Sizes == {n \in 1..MaxSize : IsPowerOfTwo(n)}

\* an entry after memset(0) / value-initialisation
ZeroEntry == [positionHash |-> 0, score |-> 0, depth |-> 0, flag |-> Flag_Invalid, move |-> 0]

\* the entries a caller may pass to Write (ASSERT(entry.IsValid()))
ValidEntries ==
    [positionHash : Hashes, score : 0..MaxScore, depth : 0..MaxEntryDepth,
     flag : ValidFlags, move : BestMoves]

\* TranspositionTableEntry::IsValid
IsValid(e) == e.flag # Flag_Invalid

\* bitwise AND of two naturals
RECURSIVE BitAnd(_, _)
BitAnd(a, b) ==
    IF a = 0 \/ b = 0 THEN 0
    ELSE (a % 2) * (b % 2) + 2 * BitAnd(a \div 2, b \div 2)

\* entries[hash & hashmapMask], as a 1-based index into a table of `size` entries
SlotOf(hash, size) == BitAnd(hash, size - 1) + 1

\* TranspositionTable::Read: <<hit, entry>>; a miss is returned as nullptr
ReadNoFlagCheck(ents, hash) ==
    IF Len(ents) # 0 /\ ents[SlotOf(hash, Len(ents))].positionHash = hash
    THEN [hit |-> TRUE, entry |-> ents[SlotOf(hash, Len(ents))]]
    ELSE [hit |-> FALSE, entry |-> ZeroEntry]

ReadEntry(ents, hash) ==
    IF Len(ents) # 0
       /\ ents[SlotOf(hash, Len(ents))].positionHash = hash
       /\ ents[SlotOf(hash, Len(ents))].flag # Flag_Invalid
    THEN [hit |-> TRUE, entry |-> ents[SlotOf(hash, Len(ents))]]
    ELSE [hit |-> FALSE, entry |-> ZeroEntry]

\* the test of Write that keeps the stored entry
KeepsExisting(existing, entry) ==
    /\ existing.positionHash = entry.positionHash
    /\ existing.depth > entry.depth
    /\ existing.flag = entry.flag

\* TranspositionTable::Write
WriteKeepingEqualDepth(ents, entry) ==
    IF Len(ents) = 0 THEN ents
    ELSE LET i == SlotOf(entry.positionHash, Len(ents)) IN
         IF ents[i].positionHash = entry.positionHash /\ ents[i].depth >= entry.depth
            /\ ents[i].flag = entry.flag
         THEN ents
         ELSE [ents EXCEPT ![i] = entry]

WriteIgnoringFlag(ents, entry) ==
    IF Len(ents) = 0 THEN ents
    ELSE LET i == SlotOf(entry.positionHash, Len(ents)) IN
         IF ents[i].positionHash = entry.positionHash /\ ents[i].depth > entry.depth
         THEN ents
         ELSE [ents EXCEPT ![i] = entry]

WriteEntry(ents, entry) ==
    IF Len(ents) = 0 THEN ents
    ELSE LET i == SlotOf(entry.positionHash, Len(ents)) IN
         IF KeepsExisting(ents[i], entry)
         THEN ents
         ELSE [ents EXCEPT ![i] = entry]

\* TranspositionTable::Clear
ClearEntries(ents) == [i \in 1..Len(ents) |-> ZeroEntry]

\* the loop of Resize: Write of every valid old entry, in index order
RECURSIVE Reinsert(_, _, _)
Reinsert(ents, old, k) ==
    IF k > Len(old) THEN ents
    ELSE Reinsert(IF IsValid(old[k]) THEN WriteEntry(ents, old[k]) ELSE ents, old, k + 1)

\* TranspositionTable::Resize
ResizeWithoutCopy(ents, newSize) ==
    IF Len(ents) # newSize THEN [i \in 1..newSize |-> ZeroEntry] ELSE ents

ResizeEntries(ents, newSize) ==
    IF Len(ents) # newSize
    THEN Reinsert([i \in 1..newSize |-> ZeroEntry], ents, 1)
    ELSE ents

\* `last` when no operation has been made: op is the operation, arg the entry or
\* hash passed, hit/res what Read returned, prior the entry of the Write call made
\* immediately before a Read of the same hash, old/n the table before Resize and
\* the size asked for
NoOp == [op |-> "Init", arg |-> ZeroEntry, hit |-> FALSE, res |-> ZeroEntry,
         prior |-> ZeroEntry, old |-> <<>>, n |-> 0]

\* the fields of TranspositionTableEntry
Fields == <<"positionHash", "score", "depth", "flag", "move">>

\* the field orders of the copy assignment entries[i] = entry: first to last
\* member, or last to first
FieldOrders == {Fields, [k \in 1..Len(Fields) |-> Fields[Len(Fields) + 1 - k]]}

WriterIds == 1..NumWriters

IdleWriter == [pc |-> "idle", entry |-> ZeroEntry, next |-> 0]

TTInit ==
    /\ entries = <<>>
    /\ last = NoOp
    /\ writers = [t \in WriterIds |-> IdleWriter]
    /\ copyOrder = Fields
    /\ SearchIdle
    /\ AuxIdle

TTWrite(e) ==
    /\ entries' = WriteEntry(entries, e)
    /\ last' = [NoOp EXCEPT !.op = "Write", !.arg = e]

TTRead(h) ==
    /\ entries' = entries
    /\ last' = [NoOp EXCEPT !.op = "Read", !.arg = [ZeroEntry EXCEPT !.positionHash = h],
                            !.prior = IF last.op = "Write" /\ last.arg.positionHash = h
                                      THEN last.arg ELSE ZeroEntry,
                            !.hit = ReadEntry(entries, h).hit,
                            !.res = ReadEntry(entries, h).entry]

TTClear ==
    /\ entries' = ClearEntries(entries)
    /\ last' = [NoOp EXCEPT !.op = "Clear"]

TTResize(n) ==
    /\ entries' = ResizeEntries(entries, n)
    /\ last' = [NoOp EXCEPT !.op = "Resize", !.old = entries, !.n = n]

DoWrite == (\E e \in ValidEntries : TTWrite(e)) /\ UNCHANGED <<concVars, searchVars, auxVars>>
DoRead == (\E h \in Hashes : TTRead(h)) /\ UNCHANGED <<concVars, searchVars, auxVars>>
DoClear == TTClear /\ UNCHANGED <<concVars, searchVars, auxVars>>
DoResize == (\E n \in Sizes : TTResize(n)) /\ UNCHANGED <<concVars, searchVars, auxVars>>

TTNext == DoWrite \/ DoRead \/ DoClear \/ DoResize

SpecTT == TTInit /\ [][TTNext]_vars

(***************************************************************************)
(* Write called by several threads without synchronisation. The test of    *)
(* the existing entry is one step; the assignment entries[i] = entry is    *)
(* not atomic: it stores one field per step, and the steps of the threads  *)
(* and the Reads of a reader interleave.                                   *)
(***************************************************************************)
\* the entries the concurrent callers pass: as ValidEntries, the score standing
\* for the whole payload computed with the depth
ConcEntries == {e \in ValidEntries : e.score = e.depth}

ConcInit ==
    /\ entries \in {[i \in 1..n |-> ZeroEntry] : n \in Sizes}
    /\ last = NoOp
    /\ writers = [t \in WriterIds |-> IdleWriter]
    /\ copyOrder \in FieldOrders
    /\ SearchIdle
    /\ AuxIdle

\* Write up to the assignment: the early return or the start of the copy
WriteBegin(t, e) ==
    /\ writers[t].pc = "idle"
    /\ Len(entries) # 0
    /\ writers' = [writers EXCEPT ![t] =
            IF KeepsExisting(entries[SlotOf(e.positionHash, Len(entries))], e)
            THEN [pc |-> "done", entry |-> e, next |-> 0]
            ELSE [pc |-> "store", entry |-> e, next |-> 1]]
    /\ UNCHANGED <<entries, last, copyOrder, searchVars, auxVars>>

\* one field of entries[i] = entry
WriteStoreField(t) ==
    /\ writers[t].pc = "store"
    /\ LET e == writers[t].entry
           f == copyOrder[writers[t].next]
           i == SlotOf(e.positionHash, Len(entries))
       IN entries' = [entries EXCEPT ![i] = [@ EXCEPT ![f] = e[f]]]
    /\ writers' = [writers EXCEPT ![t] =
            IF writers[t].next = Len(Fields)
            THEN [@ EXCEPT !.pc = "done", !.next = 0]
            ELSE [@ EXCEPT !.next = @ + 1]]
    /\ UNCHANGED <<last, copyOrder, searchVars, auxVars>>

ConcWriteBegin == \E t \in WriterIds, e \in ConcEntries : WriteBegin(t, e)
ConcWriteStore == \E t \in WriterIds : WriteStoreField(t)
ConcRead == (\E h \in Hashes : TTRead(h)) /\ UNCHANGED <<concVars, searchVars, auxVars>>

ConcNext == ConcWriteBegin \/ ConcWriteStore \/ ConcRead

SpecTTConc == ConcInit /\ [][ConcNext]_vars


(***************************************************************************)
(* Search orchestration: DoSearch, Search_Internal, AspirationWindowSearch *)
(* and CheckStopCondition. The tree below the root is not modelled: a pass *)
(* of NegaMax at the root returns any legal root move the move filter      *)
(* lets through, and its inner nodes may observe the stop condition.       *)
(***************************************************************************)
LegalMoves == 1..param.numLegalMoves

\* Search::CheckStopCondition. nodesOver: ctx.stats.nodes > maxNodes; timeDue:
\* thread.stats.nodes % 256 == 0; timeOver: GetCurrent() >= maxTime. Whenever the
\* result is true mStopSearch is (or is set) true.
CheckStopCondition(isRootNode, nodesOver, timeDue, timeOver) ==
    IF mStopSearch THEN TRUE
    ELSE IF ~param.isPonder /\ param.maxNodesSet /\ nodesOver THEN TRUE
    ELSE IF ~param.isPonder /\ (isRootNode \/ timeDue) /\ param.maxTimeValid /\ timeOver
         THEN TRUE
    ELSE FALSE

\* std::min(param.numPvLines, numLegalMoves)
ClampPvLines(p) == IF p.numPvLines < p.numLegalMoves THEN p.numPvLines ELSE p.numLegalMoves

\* the guard "stop search only at depth 2 and more" of Search_Internal and
\* AspirationWindowSearch
StopAllowedFromDepthThree(depth) == depth > 2

StopAllowedFromDepthOne(depth) == depth >= 1

StopAllowedAt(depth) == depth > 1

\* the score the search finds for the line starting with root move m (the tree
\* below the root is a fixed position: move m is worth m - 2)
RootScore(m) == m - 2

\* DoSearch returns the only legal move without searching when a time limit is
\* set and the search is not an analysis
SingleMoveShortcutNever(p) == FALSE

SingleMoveShortcut(p) == ~p.analysisMode /\ p.maxTimeValid /\ p.numLegalMoves = 1

\* the root moves NegaMax may return as best move: legal and not in the move filter
RootCandidates(filter) == LegalMoves \ filter

\* the frame of a thread entering Search_Internal
StartedThread(n) ==
    [OffThread EXCEPT !.pc = "loop", !.depth = 1, !.tempResult = NoLines(n),
                      !.prevPvLines = NoLines(n)]

\* AspirationWindowSearch narrows the window from AspirationWindowDepthStart on
\* when the previous score is valid and not a mate score (scoreUsable), unless
\* the stop condition holds
WindowWanted(depth, scoreUsable) == depth >= AspirationWindowDepthStart /\ scoreUsable

\* the frame of a thread entering AspirationWindowSearch for the next PV line
EnterAspiration(f, windowed) ==
    [f EXCEPT !.pc = "search", !.aborted = FALSE, !.pvLine = NoLine,
              !.finalPvLine = NoLine, !.retries = 0, !.windowed = windowed]

\* DoSearch is called: outResult.clear()
DoSearchEnter ==
    /\ search.pc = "idle"
    /\ search' = [search EXCEPT !.pc = "entered"]
    /\ outResult' = <<>>
    /\ UNCHANGED <<param, mStopSearch, th, stopRequested>>

\* DoSearch from mStopSearch = false to the start of the workers: the early
\* return when there is no PV line to search, the early return with the only
\* legal move, else Search_Internal on every thread
DoSearchStart ==
    /\ search.pc = "entered"
    /\ mStopSearch' = FALSE
    /\ LET n == ClampPvLines(param) IN
       IF n = 0
       THEN /\ outResult' = <<>>
            /\ search' = [pc |-> "done", numPvLines |-> n]
            /\ th' = th
       ELSE IF SingleMoveShortcut(param)
       THEN /\ outResult' = <<[NoLine EXCEPT !.move = 1, !.score = 0]>>
            /\ search' = [pc |-> "done", numPvLines |-> n]
            /\ th' = th
       ELSE /\ outResult' = NoLines(n)
            /\ search' = [pc |-> "running", numPvLines |-> n]
            /\ th' = [t \in ThreadIds |->
                        IF t < param.numThreads THEN StartedThread(n) ELSE OffThread]
    /\ UNCHANGED <<param, stopRequested>>

\* DoSearch returns when every worker has left Search_Internal
DoSearchJoin ==
    /\ search.pc = "running"
    /\ \A t \in ThreadIds : t < param.numThreads => th[t].pc = "exit"
    /\ search' = [search EXCEPT !.pc = "done"]
    /\ UNCHANGED <<param, mStopSearch, outResult, th, stopRequested>>

\* Search::StopSearch called by the owner of the search
StopSearchCall ==
    /\ search.pc \in {"entered", "running"}
    /\ mStopSearch' = TRUE
    /\ stopRequested' = TRUE
    /\ UNCHANGED <<param, search, outResult, th>>

\* the header of the iterative deepening loop and the start of its body
IterationBegin(t) ==
    /\ th[t].pc = "loop"
    /\ IF th[t].depth <= param.maxDepth
       THEN \E scoreUsable, nodesOver, timeOver \in BOOLEAN :
              LET windowCheck == WindowWanted(th[t].depth, scoreUsable)
                  stop == windowCheck /\ CheckStopCondition(TRUE, nodesOver, FALSE, timeOver)
              IN /\ th' = [th EXCEPT ![t] =
                            EnterAspiration(
                              [@ EXCEPT !.tempResult = NoLines(search.numPvLines),
                                        !.pvMovesSoFar = param.excludedMoves,
                                        !.finishSearchAtDepth = FALSE,
                                        !.pvIndex = 0], windowCheck /\ ~stop)]
                 /\ mStopSearch' = (mStopSearch \/ stop)
       ELSE /\ th' = [th EXCEPT ![t].pc = "exit"]
            /\ mStopSearch' = mStopSearch
    /\ UNCHANGED <<param, search, outResult, stopRequested>>

\* an inner node of the running pass calls CheckStopCondition and it returns
\* true: the pass is aborted
NodeObservesStop(t) ==
    /\ th[t].pc = "search"
    /\ ~th[t].aborted
    /\ \E nodesOver, timeDue, timeOver \in BOOLEAN :
          CheckStopCondition(FALSE, nodesOver, timeDue, timeOver)
    /\ th' = [th EXCEPT ![t].aborted = TRUE]
    /\ mStopSearch' = TRUE
    /\ UNCHANGED <<param, search, outResult, stopRequested>>

\* NegaMax returns at the root: the PV starts with a root move that passed the
\* filter, or is empty when the filter left none
PassReturns(t) ==
    /\ th[t].pc = "search"
    /\ \E m \in RootCandidates(th[t].pvMovesSoFar) \cup {0} :
          /\ (m = 0) <=> (RootCandidates(th[t].pvMovesSoFar) = {})
          /\ th' = [th EXCEPT ![t].pc = "aspCheck",
                              ![t].pvLine = [move |-> m,
                                             score |-> IF m = 0 THEN -InfValue
                                                       ELSE RootScore(m),
                                             iter |-> th[t].depth,
                                             aborted |-> th[t].aborted]]
    /\ UNCHANGED <<param, mStopSearch, search, outResult, stopRequested>>

\* AspirationWindowSearch after NegaMax: an empty PV comes with score -InfValue,
\* which is a fail-low; the line is kept unless the stop condition holds; the
\* loop ends on an exact score or on stop
AspirationCheck(t) ==
    /\ th[t].pc = "aspCheck"
    /\ \E exact, nodesOver, timeOver \in BOOLEAN :
          LET f == th[t]
              stopSearch == StopAllowedAt(f.depth)
                            /\ CheckStopCondition(TRUE, nodesOver, FALSE, timeOver)
              final == IF stopSearch THEN f.finalPvLine ELSE f.pvLine
          IN /\ exact <=> /\ f.pvLine.move # 0
                          /\ \/ ~f.windowed
                             \/ f.retries >= MaxRetries
                             \/ exact
             /\ f.pvLine.move = 0 => ~exact
             /\ th' = [th EXCEPT ![t] =
                        IF exact \/ stopSearch
                        THEN [f EXCEPT !.pc = "rootCheck", !.finalPvLine = final]
                        ELSE [f EXCEPT !.pc = "search", !.finalPvLine = final,
                                       !.aborted = FALSE,
                                       !.retries = IF f.pvLine.move = 0 THEN f.retries
                                                   ELSE f.retries + 1]]
             /\ mStopSearch' = (mStopSearch \/ stopSearch)
    /\ UNCHANGED <<param, search, outResult, stopRequested>>

\* Search_Internal after AspirationWindowSearch: leave on stop (the main thread
\* calls StopSearch), else publish the line and go to the next PV line or to the
\* end of the iteration
RootCheck(t) ==
    /\ th[t].pc = "rootCheck"
    /\ \E scoreUsable, nodesOver, timeOver, nextOver, nextTime \in BOOLEAN :
          LET f == th[t]
              stop == StopAllowedAt(f.depth)
                      /\ CheckStopCondition(TRUE, nodesOver, FALSE, timeOver)
              g == [f EXCEPT !.pvMovesSoFar = @ \cup {f.finalPvLine.move},
                             !.tempResult = [@ EXCEPT ![f.pvIndex + 1] = f.finalPvLine],
                             !.pvIndex = @ + 1]
              windowCheck == WindowWanted(f.depth, scoreUsable)
              stopNext == windowCheck /\ CheckStopCondition(TRUE, nextOver, FALSE, nextTime)
          IN IF stop
             THEN /\ th' = [th EXCEPT ![t] = [f EXCEPT !.pc = "exit",
                                                      !.finishSearchAtDepth = TRUE]]
                  /\ mStopSearch' = TRUE
                  /\ outResult' = outResult
             ELSE /\ outResult' = IF t = 0
                                  THEN [outResult EXCEPT ![f.pvIndex + 1] = f.finalPvLine]
                                  ELSE outResult
                  /\ IF g.pvIndex < search.numPvLines
                     THEN /\ th' = [th EXCEPT ![t] =
                                       EnterAspiration(g, windowCheck /\ ~stopNext)]
                          /\ mStopSearch' = (mStopSearch \/ stopNext)
                     ELSE /\ th' = [th EXCEPT ![t] = [g EXCEPT !.pc = "post"]]
                          /\ mStopSearch' = mStopSearch
    /\ UNCHANGED <<param, search, stopRequested>>

\* the end of an iteration: remember its lines; the main thread stops the search
\* when the soft time limit has passed; else the next depth
IterationEnd(t) ==
    /\ th[t].pc = "post"
    /\ \E softOver \in BOOLEAN :
          LET f == [th[t] EXCEPT !.prevPvLines = th[t].tempResult]
              softStop == t = 0 /\ ~param.isPonder /\ param.idealTimeValid /\ softOver
          IN /\ th' = [th EXCEPT ![t] =
                        IF softStop THEN [f EXCEPT !.pc = "exit"]
                        ELSE [f EXCEPT !.pc = "loop", !.depth = @ + 1]]
             /\ mStopSearch' = (mStopSearch \/ softStop)
    /\ UNCHANGED <<param, search, outResult, stopRequested>>

Worker(t) ==
    \/ IterationBegin(t)
    \/ NodeObservesStop(t)
    \/ PassReturns(t)
    \/ AspirationCheck(t)
    \/ RootCheck(t)
    \/ IterationEnd(t)

TTUnused ==
    /\ entries = <<>>
    /\ last = NoOp
    /\ writers = [t \in WriterIds |-> IdleWriter]
    /\ copyOrder = Fields

\* the DoSearch calls of the single-threaded model
SearchParams ==
    {p \in [numLegalMoves : 1..MaxLegalMoves, excludedMoves : SUBSET (1..MaxLegalMoves),
            numPvLines : 1..MaxPvLines, maxDepth : 1..MaxDepth, numThreads : {1},
            isPonder : {FALSE}, analysisMode : {FALSE}, maxTimeValid : BOOLEAN,
            maxNodesSet : {FALSE}, idealTimeValid : BOOLEAN, isInCheck : {FALSE}] :
        /\ p.excludedMoves \subseteq 1..p.numLegalMoves
        /\ Cardinality(p.excludedMoves) <= MaxExcluded}

SearchInit ==
    /\ TTUnused
    /\ AuxIdle
    /\ param \in SearchParams
    /\ mStopSearch \in BOOLEAN
    /\ search = [pc |-> "idle", numPvLines |-> 0]
    /\ outResult = <<>>
    /\ th = [t \in ThreadIds |-> OffThread]
    /\ stopRequested = FALSE

SearchNext ==
    \/ (DoSearchEnter /\ UNCHANGED <<ttVars, concVars, auxVars>>)
    \/ (DoSearchStart /\ UNCHANGED <<ttVars, concVars, auxVars>>)
    \/ (DoSearchJoin /\ UNCHANGED <<ttVars, concVars, auxVars>>)
    \/ (StopSearchCall /\ UNCHANGED <<ttVars, concVars, auxVars>>)
    \/ \E t \in ThreadIds : Worker(t) /\ UNCHANGED <<ttVars, concVars, auxVars>>

SpecSearch == SearchInit /\ [][SearchNext]_vars

\* the DoSearch calls of the root-exit model: positions with no, one or two
\* legal moves, in check or not, with and without time limit and analysis mode
RootExitParams ==
    [numLegalMoves : 0..2, excludedMoves : {{}}, numPvLines : 1..MaxPvLines,
     maxDepth : 1..MaxDepth, numThreads : {1}, isPonder : {FALSE},
     analysisMode : BOOLEAN, maxTimeValid : BOOLEAN, maxNodesSet : {FALSE},
     idealTimeValid : {FALSE}, isInCheck : BOOLEAN]

RootExitInit ==
    /\ TTUnused
    /\ AuxIdle
    /\ param \in RootExitParams
    /\ mStopSearch \in BOOLEAN
    /\ search = [pc |-> "idle", numPvLines |-> 0]
    /\ outResult = <<>>
    /\ th = [t \in ThreadIds |-> OffThread]
    /\ stopRequested = FALSE

SpecRootExit == RootExitInit /\ [][SearchNext]_vars

\* the DoSearch calls of the multi-threaded model: one PV line, no excluded
\* move, no limit but maxDepth, so that only StopSearch ends a search early
ThreadedParams ==
    [numLegalMoves : {2}, excludedMoves : {{}}, numPvLines : {1},
     maxDepth : 1..MaxDepth, numThreads : {1, 2}, isPonder : BOOLEAN,
     analysisMode : {FALSE}, maxTimeValid : {FALSE}, maxNodesSet : {FALSE},
     idealTimeValid : {FALSE}, isInCheck : {FALSE}]

ThreadedInit ==
    /\ TTUnused
    /\ AuxIdle
    /\ param \in ThreadedParams
    /\ mStopSearch \in BOOLEAN
    /\ search = [pc |-> "idle", numPvLines |-> 0]
    /\ outResult = <<>>
    /\ th = [t \in ThreadIds |-> OffThread]
    /\ stopRequested = FALSE

\* a step of thread t that the scheduler takes when it is enabled
Progress(t) ==
    (IterationBegin(t) \/ PassReturns(t) \/ AspirationCheck(t) \/ RootCheck(t)
        \/ IterationEnd(t)) /\ UNCHANGED <<ttVars, concVars, auxVars>>

\* the calling thread runs DoSearch and every started std::thread is scheduled
SearchFairness ==
    /\ WF_vars(DoSearchStart /\ UNCHANGED <<ttVars, concVars, auxVars>>)
    /\ WF_vars(DoSearchJoin /\ UNCHANGED <<ttVars, concVars, auxVars>>)
    /\ \A t \in ThreadIds : WF_vars(Progress(t))

FairSpecSearch == ThreadedInit /\ [][SearchNext]_vars /\ SearchFairness


(***************************************************************************)
(* One node of the search: NegaMax and QuiescenceNegaMax. The frame of one *)
(* call is followed from its entry to its return; the value a call made by *)
(* the node returns is an input, and any call the node makes can be        *)
(* followed in turn, so the windows met are those the code derives.        *)
(***************************************************************************)
\* values a NegaMax or QuiescenceNegaMax call without move filter returns
ChildScores == {-CheckmateValue + 1, -1, 0, 1, CheckmateValue - 1}

\* values of Evaluate and of TTEntry::staticEval
EvalScores == {-(TablebaseWinValue - 1), -1, 1, KnownWinValue, TablebaseWinValue - 1}

\* values of ScoreFromTT
TTScores == {-(CheckmateValue - 1), -1, 0, KnownWinValue, CheckmateValue - 1}

\* TTEntry::Bounds
Bounds == {"Lower", "Upper", "Exact"}

Call(fn, height, alpha, beta, filter) ==
    [fn |-> fn, height |-> height, alpha |-> alpha, beta |-> beta,
     hasMoveFilter |-> filter]

\* the locals of a call at its entry
NodeFrame(c) ==
    [fn |-> c.fn, pc |-> "entry", height |-> c.height, alpha |-> c.alpha,
     beta |-> c.beta, hasMoveFilter |-> c.hasMoveFilter, isInCheck |-> FALSE,
     a |-> c.alpha, b |-> c.beta, bestValue |-> -InfValue, futilityBase |-> -InfValue,
     moveIndex |-> 0, filteredSomeMove |-> FALSE, singularDone |-> FALSE, called |-> {},
     ret |-> InvalidValue, exit |-> "none"]

Return(f, v, exit, calls) ==
    [f EXCEPT !.pc = "returned", !.ret = v, !.exit = exit, !.called = calls]

ToMoves(f, a, b, calls) ==
    [f EXCEPT !.pc = "moves", !.a = a, !.b = b, !.called = calls]

IsPvNode(f) == f.beta - f.alpha # 1

\* the zero-width window of a child searched to prove it does not beat alpha
NullWindowEmpty(height, alpha) == Call("NegaMax", height, -alpha, -alpha, FALSE)

NullWindow(height, alpha) == Call("NegaMax", height, -alpha - 1, -alpha, FALSE)

\* mate distance pruning: the window clamped to the mate scores of this height
MateAlphaTwoPliesOn(f, alpha) == Max(-CheckmateValue + f.height + 2, alpha)

MateAlpha(f, alpha) == Max(-CheckmateValue + f.height, alpha)

MateBeta(f) == Min(CheckmateValue - f.height - 1, f.beta)

\* the value returned when no move was searched and the search was not aborted
NoMoveValue(f, isInCheck) ==
    IF f.filteredSomeMove THEN -InfValue
    ELSE IF isInCheck THEN -CheckmateValue + f.height
    ELSE 0

PrologueExits ==
    {"quiescence", "draw", "tt", "tablebase", "betaPruning", "alphaPruning",
     "razoring", "nullMove", "moves"}

\* NegaMax from its entry to the move loop, with every return before the loop
\* (the root is entered with depth >= 1 and is never delegated to quiescence)
NegaMaxPrologue ==
    /\ node.fn = "NegaMax"
    /\ node.pc = "entry"
    /\ \E canCycle, inCheck \in BOOLEAN, path \in PrologueExits :
        LET f == node
            isRoot == f.height = 0
            cyc == ~isRoot /\ f.alpha < 0 /\ canCycle
            a1 == IF cyc THEN 0 ELSE f.alpha
            a2 == IF isRoot THEN a1 ELSE MateAlpha(f, a1)
            b2 == IF isRoot THEN f.beta ELSE MateBeta(f)
            static == ~IsPvNode(f) /\ ~f.hasMoveFilter /\ ~inCheck
            qs == Call("QuiescenceNegaMax", f.height, f.alpha, f.beta, FALSE)
            nm == Call("NegaMax", f.height + 1, -b2, -b2 + 1, FALSE)
        IN
        IF cyc /\ a1 >= f.beta THEN node' = Return(f, a1, "cycle", {})
        ELSE IF path = "quiescence" /\ ~isRoot
             THEN \E q \in ChildScores : node' = Return(f, q, "quiescence", {qs})
        ELSE IF path = "draw" /\ ~isRoot THEN node' = Return(f, 0, "draw", {})
        ELSE IF ~isRoot /\ a2 >= b2 THEN node' = Return(f, a2, "mateDistance", {})
        ELSE IF path = "tt" /\ ~IsPvNode(f) /\ ~f.hasMoveFilter
             THEN \E ttScore \in TTScores, bounds \in Bounds :
                    node' = IF bounds = "Exact" THEN Return(f, ttScore, "tt", {})
                            ELSE IF bounds = "Upper" /\ ttScore <= a2
                                 THEN Return(f, a2, "tt", {})
                            ELSE IF bounds = "Lower" /\ ttScore >= b2
                                 THEN Return(f, b2, "tt", {})
                            ELSE ToMoves(f, a2, b2, {})
        ELSE IF path = "tablebase" /\ ~isRoot
             THEN \E wdl \in {-1, 0, 1} :
                    LET tbValue == wdl * (TablebaseWinValue - f.height) IN
                    node' = IF wdl = 0 \/ (wdl > 0 /\ tbValue >= b2)
                               \/ (wdl < 0 /\ tbValue <= a2)
                            THEN Return(f, tbValue, "tablebase", {})
                            ELSE ToMoves(f, a2, b2, {})
        ELSE IF path = "betaPruning" /\ static
             THEN \E staticEval \in EvalScores :
                    node' = IF staticEval <= KnownWinValue
                               /\ staticEval >= b2 + BetaMarginBias
                            THEN Return(f, staticEval, "betaPruning", {})
                            ELSE ToMoves(f, a2, b2, {})
        ELSE IF path = "alphaPruning" /\ static
             THEN \E staticEval \in EvalScores :
                    node' = IF a2 < KnownWinValue /\ staticEval > -KnownWinValue
                               /\ staticEval + AlphaMarginBias <= a2
                            THEN Return(f, staticEval, "alphaPruning", {})
                            ELSE ToMoves(f, a2, b2, {})
        ELSE IF path = "razoring" /\ static /\ b2 < KnownWinValue
             THEN \E qScore \in ChildScores :
                    node' = IF qScore < b2 THEN Return(f, qScore, "razoring", {qs})
                            ELSE ToMoves(f, a2, b2, {qs})
        ELSE IF path = "nullMove" /\ static
             THEN \E s \in ChildScores, deep \in BOOLEAN :
                    LET nullMoveScore == IF -s >= TablebaseWinValue THEN b2 ELSE -s IN
                    node' = IF -s >= b2 /\ Abs(b2) < KnownWinValue /\ ~deep
                            THEN Return(f, nullMoveScore, "nullMove", {nm})
                            ELSE ToMoves(f, a2, b2, {nm})
        ELSE node' = ToMoves(f, a2, b2, {})
    /\ UNCHANGED <<ttVars, concVars, searchVars, asp, stats, cache, rebias, extVars>>

\* the move filter skips a move
NegaMaxFilterMove ==
    /\ node.fn = "NegaMax"
    /\ node.pc = "moves"
    /\ node.hasMoveFilter
    /\ ~node.filteredSomeMove
    /\ node' = [node EXCEPT !.filteredSomeMove = TRUE, !.called = {}]
    /\ UNCHANGED <<ttVars, concVars, searchVars, asp, stats, cache, rebias, extVars>>

\* the move is the TT move of an inner node without move filter: the singular
\* search of the same position with that move filtered out; its score ends the
\* node when it beats beta
NegaMaxSingular ==
    /\ node.fn = "NegaMax"
    /\ node.pc = "moves"
    /\ node.moveIndex < MaxMoves
    /\ node.height # 0
    /\ ~node.hasMoveFilter
    /\ ~node.singularDone
    /\ \E ttScore \in TTScores, singularScore \in ChildScores \cup {-InfValue} :
        LET f == node
            singularBeta == Max(-CheckmateValue,
                                ttScore - SingularExtensionScoreMarigin
                                  - 2 * SingularitySearchMinDepth)
            sc == Call("NegaMax", f.height, singularBeta - 1, singularBeta, TRUE)
        IN
        /\ Abs(ttScore) < KnownWinValue
        /\ node' = IF singularScore >= singularBeta /\ singularScore >= f.b
                   THEN Return(f, singularScore, "singular", {sc})
                   ELSE [f EXCEPT !.singularDone = TRUE, !.called = {sc}]
    /\ UNCHANGED <<ttVars, concVars, searchVars, asp, stats, cache, rebias, extVars>>

\* one move of the loop is searched: the null-window searches, the full-window
\* search of a PV node, then the update of bestValue and alpha and the beta
\* cutoff
NegaMaxMove ==
    /\ node.fn = "NegaMax"
    /\ node.pc = "moves"
    /\ node.moveIndex < MaxMoves
    /\ \E reduced \in BOOLEAN, s1, s2 \in ChildScores :
        LET f == node
            moveIndex == f.moveIndex + 1
            isPv == IsPvNode(f)
            nullWindow == NullWindow(f.height + 1, f.a)
            fullWindow == Call("NegaMax", f.height + 1, -f.b, -f.a, FALSE)
            doReduced == reduced /\ moveIndex > 1
            doFull == IF doReduced THEN -s1 > f.a ELSE ~(isPv /\ moveIndex = 1)
            score1 == -s1
            doPv == isPv /\ (moveIndex = 1 \/ (score1 > f.a /\ score1 < f.b))
            score == IF doPv THEN -s2 ELSE score1
            calls == (IF doReduced \/ doFull THEN {nullWindow} ELSE {})
                     \cup (IF doPv THEN {fullWindow} ELSE {})
            best == Max(f.bestValue, score)
            g == [f EXCEPT !.moveIndex = moveIndex, !.bestValue = best,
                           !.a = IF score < f.b THEN Max(f.a, score) ELSE f.a,
                           !.called = calls]
        IN
        /\ (doReduced \/ doFull \/ doPv)
        /\ node' = IF score >= f.b THEN Return(g, best, "cutoff", calls) ELSE g
    /\ UNCHANGED <<ttVars, concVars, searchVars, asp, stats, cache, rebias, extVars>>

\* the move loop is over (no more moves, or the search was aborted after a move)
NegaMaxFinish ==
    /\ node.fn = "NegaMax"
    /\ node.pc = "moves"
    /\ node.height = 0 => (node.moveIndex > 0 \/ node.filteredSomeMove)
    /\ \E isInCheck \in BOOLEAN :
          node' = IF node.moveIndex = 0
                  THEN Return(node, NoMoveValue(node, isInCheck), "noMove", {})
                  ELSE Return(node, node.bestValue, "moves", {})
    /\ UNCHANGED <<ttVars, concVars, searchVars, asp, stats, cache, rebias, extVars>>

\* QuiescenceNegaMax from its entry to the move loop
QuiescencePrologue ==
    /\ node.fn = "QuiescenceNegaMax"
    /\ node.pc = "entry"
    /\ \E inCheck, insufficient, ttHit \in BOOLEAN, ttScore \in TTScores,
          bounds \in Bounds, staticEval \in EvalScores :
        LET f == node
            useTT == /\ ttHit
                     /\ Abs(ttScore) < KnownWinValue
                     /\ \/ bounds = "Lower" /\ ttScore > staticEval
                        \/ bounds = "Upper" /\ ttScore < staticEval
                        \/ bounds = "Exact"
            standPat == IF useTT THEN ttScore ELSE staticEval
        IN
        node' =
          IF insufficient THEN Return(f, 0, "draw", {})
          ELSE IF ttHit /\ bounds = "Exact" THEN Return(f, ttScore, "tt", {})
          ELSE IF ttHit /\ bounds = "Upper" /\ ttScore <= f.alpha
               THEN Return(f, f.alpha, "tt", {})
          ELSE IF ttHit /\ bounds = "Lower" /\ ttScore >= f.beta
               THEN Return(f, f.beta, "tt", {})
          ELSE IF inCheck
               THEN [f EXCEPT !.pc = "moves", !.isInCheck = TRUE,
                              !.bestValue = -CheckmateValue + f.height]
          ELSE IF standPat >= f.beta THEN Return(f, standPat, "standPat", {})
          ELSE [f EXCEPT !.pc = "moves", !.isInCheck = FALSE, !.bestValue = standPat,
                         !.a = Max(f.alpha, standPat),
                         !.futilityBase = standPat + 150]
    /\ UNCHANGED <<ttVars, concVars, searchVars, asp, stats, cache, rebias, extVars>>

\* one move of the quiescence loop: skipped as futile (futilityBase is -InfValue
\* when in check), or searched
QuiescenceMove ==
    /\ node.fn = "QuiescenceNegaMax"
    /\ node.pc = "moves"
    /\ node.moveIndex < MaxMoves
    /\ \E futile \in BOOLEAN, s \in ChildScores :
        LET f == node
            child == Call("QuiescenceNegaMax", f.height + 1, -f.b, -f.a, FALSE)
            score == -s
            best == Max(f.bestValue, score)
        IN
        IF futile
        THEN /\ f.futilityBase > -KnownWinValue
             /\ f.futilityBase <= f.a
             /\ node' = [f EXCEPT !.bestValue = Max(f.bestValue, f.futilityBase),
                                  !.called = {}]
        ELSE node' =
               IF score > f.bestValue /\ score >= f.b
               THEN Return([f EXCEPT !.moveIndex = @ + 1, !.bestValue = best],
                           best, "cutoff", {child})
               ELSE [f EXCEPT !.moveIndex = @ + 1, !.bestValue = best,
                              !.a = IF score > f.bestValue THEN Max(f.a, score) ELSE f.a,
                              !.called = {child}]
    /\ UNCHANGED <<ttVars, concVars, searchVars, asp, stats, cache, rebias, extVars>>

\* the quiescence loop is over
QuiescenceFinish ==
    /\ node.fn = "QuiescenceNegaMax"
    /\ node.pc = "moves"
    /\ node' = IF node.isInCheck /\ node.moveIndex = 0
               THEN Return(node, -CheckmateValue + node.height, "noMove", {})
               ELSE Return(node, node.bestValue, "moves", {})
    /\ UNCHANGED <<ttVars, concVars, searchVars, asp, stats, cache, rebias, extVars>>

\* follow one of the calls the node has just made
NodeDescend ==
    /\ \E c \in node.called :
          /\ c.height <= MaxHeight
          /\ node' = NodeFrame(c)
    /\ UNCHANGED <<ttVars, concVars, searchVars, asp, stats, cache, rebias, extVars>>

\* C++ integer division truncates toward zero
TruncDiv(x, y) == IF x >= 0 THEN x \div y ELSE -((-x) \div y)

\* a score at or beyond the mate threshold
IsMate(score) == Abs(score) >= CheckmateValue - MaxSearchDepth

\* the aspiration window at iteration depth 'depth' after previous score 'prev'
InitialWindow(depth, prev) ==
    Max(AspirationWindowEnd,
        AspirationWindowStart - (depth - AspirationWindowDepthStart) * AspirationWindowStep)
      + Abs(prev) \div 10

\* the growth of the window after a pass
WidenedByOne(window) == window + 1

Widened(window) ==
    IF 2 * window + 5 > AspirationWindowMaxSize THEN CheckmateValue ELSE 2 * window + 5

\* the iteration depths and previous scores AspirationWindowSearch is entered with
AspDepths == {1, AspirationWindowDepthStart, AspirationWindowDepthStart + 4,
              AspirationWindowDepthStart + 5}

PrevScores == {InvalidValue, -(TablebaseWinValue - 1), -100, 0, 100,
               TablebaseWinValue - 1, CheckmateValue - 1}

\* the frame of AspirationWindowSearch before its first pass
AspFrame(depth, prev) ==
    LET window == InitialWindow(depth, prev)
        applied == /\ depth >= AspirationWindowDepthStart
                   /\ prev # InvalidValue
                   /\ ~IsMate(prev)
    IN [pc |-> "search", paramDepth |-> depth, depth |-> depth, previousScore |-> prev,
        window |-> window,
        alpha |-> IF applied THEN Max(prev - window, -InfValue) ELSE -InfValue,
        beta |-> IF applied THEN Min(prev + window, InfValue) ELSE InfValue,
        searchedAlpha |-> 0, searchedBeta |-> 0,
        score |-> InvalidValue, boundsType |-> "none", passes |-> 0]

\* the scores the root NegaMax may return for the window: at or below alpha,
\* inside, at or above beta (some root move passes the filter)
AspScores(alpha, beta) ==
    {x \in {alpha, alpha + 1, beta - 1, beta, -CheckmateValue + 1, 0, CheckmateValue - 1} :
        x > -CheckmateValue /\ x < CheckmateValue}

\* one pass of the loop of AspirationWindowSearch: NegaMax returns, the window
\* is widened, the loop ends on an exact score
AspirationPass ==
    /\ asp.pc = "search"
    /\ \E s \in AspScores(asp.alpha, asp.beta) :
        LET window == Widened(asp.window)
            f == [asp EXCEPT !.window = window, !.passes = @ + 1,
                             !.searchedAlpha = asp.alpha, !.searchedBeta = asp.beta]
        IN
        asp' =
          IF s <= asp.alpha
          THEN [f EXCEPT !.score = asp.alpha,
                         !.beta = TruncDiv(asp.alpha + asp.beta + 1, 2),
                         !.alpha = Max(asp.alpha - window, -CheckmateValue),
                         !.boundsType = "UpperBound"]
          ELSE IF s >= asp.beta
          THEN [f EXCEPT !.score = asp.beta,
                         !.beta = Min(asp.beta + window, CheckmateValue),
                         !.boundsType = "LowerBound",
                         !.depth = IF asp.depth > AspirationWindowDepthStart
                                      /\ asp.depth + 3 > asp.paramDepth
                                   THEN asp.depth - 1 ELSE asp.depth]
          ELSE [f EXCEPT !.score = s, !.boundsType = "Exact", !.pc = "done"]
    /\ UNCHANGED <<ttVars, concVars, searchVars, node, stats, cache, rebias, extVars>>

\* follow the root call of the next pass (of the first pass and of the first
\* MaxRetries re-searches): from AspirationWindowSearch with or without the
\* multi-PV move filter
AspirationEntersRoot ==
    /\ asp.pc = "search"
    /\ asp.passes <= MaxRetries
    /\ \E filter \in BOOLEAN :
          node' = NodeFrame(Call("NegaMax", 0, asp.alpha, asp.beta, filter))
    /\ asp' = NoAsp
    /\ UNCHANGED <<ttVars, concVars, searchVars, stats, cache, rebias, extVars>>

\* the root call of the root singularity search of Search_Internal: a null
\* window below the primary move's score, the primary move filtered out
SingularRootCalls ==
    {Call("NegaMax", 0, singularBeta - 1, singularBeta, TRUE) : singularBeta \in {-999, 0, 999}}

AspInit ==
    /\ TTUnused
    /\ SearchIdle
    /\ stats = <<>>
    /\ cache = <<>>
    /\ rebias = <<>>
    /\ ExtIdle
    /\ node = NoNode
    /\ asp \in {AspFrame(d, prev) : d \in AspDepths, prev \in PrevScores}

NodeInit ==
    /\ TTUnused
    /\ SearchIdle
    /\ stats = <<>>
    /\ cache = <<>>
    /\ rebias = <<>>
    /\ ExtIdle
    /\ \/ /\ node = NoNode
          /\ asp \in {AspFrame(d, prev) : d \in AspDepths, prev \in PrevScores}
       \/ /\ node \in {NodeFrame(c) : c \in SingularRootCalls}
          /\ asp = NoAsp

NodeNext ==
    \/ AspirationPass
    \/ AspirationEntersRoot
    \/ NegaMaxPrologue
    \/ NegaMaxFilterMove
    \/ NegaMaxSingular
    \/ NegaMaxMove
    \/ NegaMaxFinish
    \/ QuiescencePrologue
    \/ QuiescenceMove
    \/ QuiescenceFinish
    \/ NodeDescend

SpecNode == NodeInit /\ [][NodeNext]_vars

\* AspirationWindowSearch alone; the thread that runs it is scheduled
FairSpecAsp == AspInit /\ [][AspirationPass]_vars /\ WF_vars(AspirationPass)

(***************************************************************************)
(* Node statistics: Search::Stats, the ThreadStats of every thread, and the *)
(* periodic time check of CheckStopCondition.                               *)
(***************************************************************************)
\* Stats::Append moves a thread's counters once they hold this many nodes
AppendBatch == 64

\* CheckStopCondition reads the clock at inner nodes when thread.stats.nodes is
\* a multiple of this
TimeCheckPeriod == 256

NoCheck == [name |-> "none", flagWas |-> FALSE, consulted |-> FALSE, result |-> FALSE]

\* a constructed Search: one ThreadData, zeroed ThreadStats.
\* global: Stats::nodes of the running DoSearch; pending: ThreadStats::nodes;
\* entries, sinceClock, op: history (the NegaMax and QuiescenceNegaMax entries
\* of the running search, the entries of thread 0 since it last read the clock
\* in a timed search, the last CheckStopCondition call at an inner node)
StatsIdle ==
    [mode |-> "idle", threads |-> {}, started |-> {}, global |-> 0, entries |-> 0,
     pending |-> [t \in ThreadIds |-> 0], sinceClock |-> 0, op |-> NoCheck]

\* Stats::Append(threadStats, flush) for thread t
StatsAppend(s, t, flush) ==
    IF s.pending[t] >= AppendBatch \/ flush
    THEN [s EXCEPT !.global = @ + s.pending[t], !.pending[t] = 0]
    ELSE s

\* DoSearch constructs the Stats of the search and resizes mThreadData; with
\* limits.maxDepth == 0 it first runs the quiescence search on thread 0
StatsDoSearch ==
    /\ stats.mode = "idle"
    /\ \E n \in 1..2, depthZero \in BOOLEAN :
          stats' = [stats EXCEPT !.mode = IF depthZero THEN "depthZero" ELSE "search",
                                 !.threads = 0..(n - 1),
                                 !.started = {},
                                 !.global = 0,
                                 !.entries = 0,
                                 !.pending = [t \in ThreadIds |->
                                                IF t < n THEN stats.pending[t] ELSE 0]]
    /\ UNCHANGED <<ttVars, concVars, searchVars, node, asp, cache, rebias, extVars>>

\* Search_Internal begins on thread t: thread.stats = ThreadStats{}
StatsSearchInternal(t) ==
    /\ stats.mode = "search"
    /\ t \in stats.threads \ stats.started
    /\ stats' = [stats EXCEPT !.started = @ \cup {t}, !.pending[t] = 0]
    /\ UNCHANGED <<ttVars, concVars, searchVars, node, asp, cache, rebias, extVars>>

\* thread t enters NegaMax or QuiescenceNegaMax: thread.stats.nodes++ and
\* ctx.stats.Append(thread.stats)
StatsEnterNode(t, limit) ==
    /\ ~mStopSearch
    /\ stats.entries < limit
    /\ \/ stats.mode = "search" /\ t \in stats.started
       \/ stats.mode = "depthZero" /\ t = 0
    /\ LET timed == t = 0 /\ param.maxTimeValid /\ ~param.isPonder IN
       stats' = StatsAppend([stats EXCEPT !.pending[t] = @ + 1,
                                     !.entries = @ + 1,
                                     !.sinceClock = IF timed THEN @ + 1 ELSE @,
                                          !.op = NoCheck],
                            t, FALSE)
    /\ UNCHANGED <<ttVars, concVars, searchVars, node, asp, cache, rebias, extVars>>

\* the end of a pass of AspirationWindowSearch on thread t: Append(thread.stats, true)
StatsFlush(t) ==
    /\ stats.mode = "search"
    /\ t \in stats.started
    /\ stats' = StatsAppend(stats, t, TRUE)
    /\ UNCHANGED <<ttVars, concVars, searchVars, node, asp, cache, rebias, extVars>>

\* the quiescence search of DoSearch with maxDepth == 0 has returned: the forced
\* Append, then Search_Internal on every thread (its depth loop is empty), and
\* DoSearch returns
StatsDepthZeroEnd ==
    /\ stats.mode = "depthZero"
    /\ stats.entries > 0
    /\ stats' = [stats EXCEPT !.mode = "idle", !.global = 0, !.entries = 0,
                              !.pending = [t \in ThreadIds |-> 0]]
    /\ UNCHANGED <<ttVars, concVars, searchVars, node, asp, cache, rebias, extVars>>

\* the threads of DoSearch have ended. A helper thread ends after the forced
\* Append of its last pass; the main thread may end after the root singularity
\* search, which is followed by no Append
StatsDoSearchReturn ==
    /\ stats.mode = "search"
    /\ stats.started = stats.threads
    /\ \A t \in stats.threads \ {0} : stats.pending[t] = 0
    /\ stats' = [stats EXCEPT !.mode = "idle", !.global = 0, !.entries = 0]
    /\ UNCHANGED <<ttVars, concVars, searchVars, node, asp, cache, rebias, extVars>>

\* an inner node of thread t calls CheckStopCondition(thread, ctx, false)
StatsCheckStop(t) ==
    /\ stats.mode = "search"
    /\ t \in stats.started
    /\ stats.entries >= 2
    /\ \E timeOver \in BOOLEAN :
        LET timeDue == stats.pending[t] % TimeCheckPeriod = 0
            consulted == ~mStopSearch /\ ~param.isPonder /\ timeDue /\ param.maxTimeValid
            result == CheckStopCondition(FALSE, FALSE, timeDue, timeOver)
        IN
        /\ stats' = [stats EXCEPT !.op = [name |-> "check", flagWas |-> mStopSearch,
                                          consulted |-> consulted, result |-> result],
                                  !.sinceClock = IF consulted THEN 0 ELSE @]
        /\ mStopSearch' = (mStopSearch \/ result)
    /\ UNCHANGED <<ttVars, concVars, param, search, outResult, th, stopRequested,
                   node, asp, cache, rebias, extVars>>

StatsInit ==
    /\ TTUnused
    /\ SearchIdle
    /\ node = NoNode
    /\ asp = NoAsp
    /\ cache = <<>>
    /\ rebias = <<>>
    /\ ExtIdle
    /\ stats = StatsIdle

StatsNext ==
    \/ StatsDoSearch
    \/ \E t \in ThreadIds : StatsSearchInternal(t)
    \/ \E t \in ThreadIds : StatsEnterNode(t, MaxNodes)
    \/ \E t \in ThreadIds : StatsFlush(t)
    \/ StatsDepthZeroEnd
    \/ StatsDoSearchReturn

SpecStats == StatsInit /\ [][StatsNext]_vars

\* one thread of a timed search, from the start of Search_Internal
ClockInit ==
    /\ TTUnused
    /\ param = [DefaultParam EXCEPT !.maxTimeValid = TRUE]
    /\ mStopSearch = FALSE
    /\ search = [pc |-> "idle", numPvLines |-> 0]
    /\ outResult = <<>>
    /\ th = [t \in ThreadIds |-> OffThread]
    /\ stopRequested = FALSE
    /\ node = NoNode
    /\ asp = NoAsp
    /\ cache = <<>>
    /\ rebias = <<>>
    /\ ExtIdle
    /\ stats = [StatsIdle EXCEPT !.mode = "search", !.threads = {0}, !.started = {0}]

ClockNext ==
    \/ StatsEnterNode(0, MaxTimedNodes)
    \/ StatsCheckStop(0)

SpecClock == ClockInit /\ [][ClockNext]_vars

(***************************************************************************)
(* Score re-biasing of transposition table scores: ScoreToTT, ScoreFromTT.  *)
(***************************************************************************)
\* a score on its way into the table from a node at 'height': scores of known
\* wins and losses are stored relative to the node
ScoreToTT(score, height) ==
    IF score >= KnownWinValue THEN score + height
    ELSE IF score <= -KnownWinValue THEN score - height
    ELSE score

\* a stored score read at 'height', the half-move clock leaving it reachable
ScoreFromTTUnbiased(score, height) == score

ScoreFromTT(score, height) ==
    IF score >= KnownWinValue THEN score - height
    ELSE IF score <= -KnownWinValue THEN score + height
    ELSE score

\* scores strictly inside (-CheckmateValue, CheckmateValue), heights in
\* [0, MaxSearchDepth)
RebiasScores ==
    {-(CheckmateValue - 1), -(CheckmateValue - 2), -(CheckmateValue - MaxSearchDepth),
     -TablebaseWinValue, -KnownWinValue, -(KnownWinValue - 1), -1, 0, 1,
     KnownWinValue - 1, KnownWinValue, TablebaseWinValue,
     CheckmateValue - MaxSearchDepth, CheckmateValue - 2, CheckmateValue - 1}

RebiasHeights == {0, 1, 2, MaxSearchDepth - 1}

\* the scores a node at height h1 can hold: mate distance pruning keeps them in
\* [-CheckmateValue + h1, CheckmateValue - h1 - 1], the lower end being the score
\* of a mated node
ScoreAtHeight(score, h1) ==
    score >= -CheckmateValue + h1 /\ score <= CheckmateValue - h1 - 1

\* the score of a mated node is never read at the root: DoSearch returns
\* before any search when the root has no legal move
ReadableAt(score, h1, h2) == h2 = 0 => score # -CheckmateValue + h1

\* NegaMax at height h1 writes its score: ScoreToTT(bestValue, node.height)
RebiasWrite ==
    /\ rebias.pc = "write"
    /\ rebias' = [rebias EXCEPT !.pc = "read", !.stored = ScoreToTT(rebias.score, rebias.h1)]
    /\ UNCHANGED <<ttVars, concVars, searchVars, node, asp, stats, cache, extVars>>

\* NegaMax at height h2 reads it: ScoreFromTT(ttEntry.score, node.height, ...)
RebiasRead ==
    /\ rebias.pc = "read"
    /\ rebias' = [rebias EXCEPT !.pc = "done", !.ttScore = ScoreFromTT(rebias.stored, rebias.h2)]
    /\ UNCHANGED <<ttVars, concVars, searchVars, node, asp, stats, cache, extVars>>

RebiasInit ==
    /\ TTUnused
    /\ SearchIdle
    /\ node = NoNode
    /\ asp = NoAsp
    /\ stats = <<>>
    /\ cache = <<>>
    /\ ExtIdle
    /\ rebias \in {r \in [pc : {"write"}, score : RebiasScores, h1 : RebiasHeights,
                           h2 : RebiasHeights, stored : {InvalidValue},
                           ttScore : {InvalidValue}] :
                        ScoreAtHeight(r.score, r.h1) /\ ReadableAt(r.score, r.h1, r.h2)}

RebiasNext == RebiasWrite \/ RebiasRead

SpecRebias == RebiasInit /\ [][RebiasNext]_vars

(***************************************************************************)
(* Node cache: NodeCacheEntry::AddMoveStats and ScaleDown.                  *)
(***************************************************************************)
\* the values of a node counter are 0..CacheWord - 1 (UINT64_MAX)
CacheWord == 2 ^ CacheWordBits

\* UINT64_MAX / MaxMoves: the count at which AddMoveStats scales the entry down
SaturationThreshold == (CacheWord - 1) \div CacheMoves

CacheSlots == 1..CacheMoves

\* the moves of the position (0 is the invalid move of an empty slot): one more
\* than the entry has slots
CacheMoveIds == 1..(CacheMoves + 1)

\* the node counts passed to AddMoveStats: the nodes of one subtree, far below
\* the saturation threshold in the program
NumNodes == {1, SaturationThreshold \div 2, SaturationThreshold - 1}

NoCall == [saturated |-> FALSE, wrapped |-> FALSE, pre |-> <<>>]

NoCacheCall == [op |-> "none", move |-> 0, numNodes |-> 0, before |-> <<>>]

\* NodeCacheEntry{}; last: history of the last AddMoveStats call (a count
\* reached the threshold, an addition wrapped around, the counts before
\* ScaleDown); call: the last call with its arguments and the slots before it;
\* bestCalled: the moves SetBestMove has marked
EmptyEntry ==
    [moves |-> [i \in CacheSlots |->
                  [move |-> 0, nodesSearched |-> 0, isBestMove |-> FALSE]],
     nodesSum |-> 0, last |-> NoCall, call |-> NoCacheCall, bestCalled |-> {}]

RECURSIVE SumFrom(_, _)
SumFrom(moves, i) ==
    IF i > CacheMoves THEN 0 ELSE moves[i].nodesSearched + SumFrom(moves, i + 1)

\* NodeCacheEntry::ScaleDown
ScaleDownSumOnly(e) == [e EXCEPT !.nodesSum = SumFrom(e.moves, 1) % CacheWord]

ScaleDown(e) ==
    LET halved == [i \in CacheSlots |->
                     [e.moves[i] EXCEPT !.nodesSearched = @ \div 2]]
    IN [e EXCEPT !.moves = halved, !.nodesSum = SumFrom(halved, 1) % CacheWord]

\* the loop of AddMoveStats with a slot to replace that is the last one with a
\* count below numNodes
RECURSIVE ScanMovesAnyLower(_, _, _, _, _, _)
ScanMovesAnyLower(e, move, numNodes, i, minNodes, minNodesMoveIndex) ==
    IF i > CacheMoves THEN [found |-> FALSE, index |-> minNodesMoveIndex]
    ELSE IF e.moves[i].move = move THEN [found |-> TRUE, index |-> i]
    ELSE IF e.moves[i].move = 0 \/ e.moves[i].nodesSearched < numNodes
         THEN ScanMovesAnyLower(e, move, numNodes, i + 1, e.moves[i].nodesSearched, i)
         ELSE ScanMovesAnyLower(e, move, numNodes, i + 1, minNodes, minNodesMoveIndex)

\* the loop of AddMoveStats from slot i on: the slot of 'move', or else the slot
\* to replace (0: none)
RECURSIVE ScanMoves(_, _, _, _, _, _)
ScanMoves(e, move, numNodes, i, minNodes, minNodesMoveIndex) ==
    IF i > CacheMoves THEN [found |-> FALSE, index |-> minNodesMoveIndex]
    ELSE IF e.moves[i].move = move THEN [found |-> TRUE, index |-> i]
    ELSE IF e.moves[i].move = 0
            \/ (e.moves[i].nodesSearched < minNodes /\ e.moves[i].nodesSearched < numNodes)
         THEN ScanMoves(e, move, numNodes, i + 1, e.moves[i].nodesSearched, i)
         ELSE ScanMoves(e, move, numNodes, i + 1, minNodes, minNodesMoveIndex)

\* NodeCacheEntry::AddMoveStats
AddMoveStats(e, move, numNodes) ==
    LET r == ScanMoves(e, move, numNodes, 1, CacheWord - 1, 0)
        i == r.index
    IN
    IF r.found
    THEN LET sum == e.moves[i].nodesSearched + numNodes
             added == [e EXCEPT !.moves[i].nodesSearched = sum % CacheWord,
                                !.nodesSum = (@ + numNodes) % CacheWord]
             saturated == added.moves[i].nodesSearched >= SaturationThreshold
             after == IF saturated THEN ScaleDown(added) ELSE added
         IN [after EXCEPT !.last =
                [saturated |-> saturated, wrapped |-> sum >= CacheWord,
                 pre |-> IF saturated
                         THEN [j \in CacheSlots |-> added.moves[j].nodesSearched]
                         ELSE <<>>]]
    ELSE IF i # 0
    THEN [e EXCEPT !.nodesSum = (@ + CacheWord - e.moves[i].nodesSearched + numNodes)
                                  % CacheWord,
                   !.moves[i] = [@ EXCEPT !.move = move, !.nodesSearched = numNodes],
                   !.last = [saturated |-> numNodes >= SaturationThreshold,
                             wrapped |-> FALSE, pre |-> <<>>]]
    ELSE [e EXCEPT !.last = NoCall]

\* the loop of SetBestMove from slot i on: the slot of 'move' (0: none)
RECURSIVE FindMove(_, _, _)
FindMove(e, move, i) ==
    IF i > CacheMoves THEN 0
    ELSE IF e.moves[i].move = move THEN i
    ELSE FindMove(e, move, i + 1)

\* NodeCacheEntry::SetBestMove: the slot of the move is marked and inserted at
\* the front, the slots before it move up by one
SetBestMove(e, move) ==
    LET i == FindMove(e, move, 1) IN
    IF i = 0 THEN e
    ELSE LET temp == [e.moves[i] EXCEPT !.isBestMove = TRUE] IN
         [e EXCEPT !.moves = [j \in CacheSlots |->
                                IF j = 1 THEN temp
                                ELSE IF j <= i THEN e.moves[j - 1]
                                ELSE e.moves[j]]]

CacheAddMoveStats ==
    /\ \E move \in CacheMoveIds, numNodes \in NumNodes :
          cache' = [AddMoveStats(cache, move, numNodes) EXCEPT
                      !.call = [op |-> "AddMoveStats", move |-> move,
                                numNodes |-> numNodes, before |-> cache.moves]]
    /\ UNCHANGED <<ttVars, concVars, searchVars, node, asp, stats, rebias, extVars>>

CacheInit ==
    /\ TTUnused
    /\ SearchIdle
    /\ node = NoNode
    /\ asp = NoAsp
    /\ stats = <<>>
    /\ rebias = <<>>
    /\ ExtIdle
    /\ cache = EmptyEntry

SpecCache == CacheInit /\ [][CacheAddMoveStats]_vars

CacheScaleDown ==
    /\ cache' = [ScaleDown(cache) EXCEPT
                   !.last = NoCall,
                   !.call = [NoCacheCall EXCEPT !.op = "ScaleDown", !.before = cache.moves]]
    /\ UNCHANGED <<ttVars, concVars, searchVars, node, asp, stats, rebias, extVars>>

CacheSetBestMove ==
    /\ \E move \in CacheMoveIds :
          cache' = [SetBestMove(cache, move) EXCEPT
                      !.last = NoCall,
                      !.bestCalled = IF FindMove(cache, move, 1) # 0
                                     THEN @ \cup {move} ELSE @,
                      !.call = [NoCacheCall EXCEPT !.op = "SetBestMove", !.move = move,
                                            !.before = cache.moves]]
    /\ UNCHANGED <<ttVars, concVars, searchVars, node, asp, stats, rebias, extVars>>

\* any sequence of calls on one entry
EntryNext == CacheAddMoveStats \/ CacheScaleDown \/ CacheSetBestMove

SpecEntry == CacheInit /\ [][EntryNext]_vars

(***************************************************************************)
(* NN evaluator: the accumulator-delta table built by                      *)
(* PackedNeuralNetwork::InitAccumulatorDeltas, the board changes of        *)
(* Position::DoMove, and the incremental update of the two accumulators.   *)
(***************************************************************************)
Squares == 0..63

FileOf(s) == s % 8

RankOf(s) == s \div 8

SquareAt(file, rank) == rank * 8 + file

White == 0

Black == 1

Colors == {White, Black}

\* pieceIdx of InitAccumulatorDeltas: static_cast<Piece>(pieceIdx + 1)
Pawn == 0

Knight == 1

Bishop == 2

Rook == 3

Queen == 4

King == 5

PieceIdxs == Pawn..King

GetOppositeColor(c) == 1 - c

\* the square (file + df, rank + dr) of s, when it is on the board
Shifted(s, df, dr) ==
    IF FileOf(s) + df \in 0..7 /\ RankOf(s) + dr \in 0..7
    THEN {SquareAt(FileOf(s) + df, RankOf(s) + dr)}
    ELSE {}

GetPawnAttacks(s, color) ==
    LET dr == IF color = White THEN 1 ELSE -1
    IN Shifted(s, -1, dr) \cup Shifted(s, 1, dr)

\* t is a king's step, a knight's jump, on a rank or file, on a diagonal from s
KingStep(s, t) ==
    t # s /\ Abs(FileOf(t) - FileOf(s)) <= 1 /\ Abs(RankOf(t) - RankOf(s)) <= 1

KnightJump(s, t) ==
    {Abs(FileOf(t) - FileOf(s)), Abs(RankOf(t) - RankOf(s))} = {1, 2}

RookLine(s, t) == t # s /\ (FileOf(t) = FileOf(s) \/ RankOf(t) = RankOf(s))

BishopLine(s, t) == t # s /\ Abs(FileOf(t) - FileOf(s)) = Abs(RankOf(t) - RankOf(s))

GetKingAttacks(s) == {t \in Squares : KingStep(s, t)}

GetKnightAttacks(s) == {t \in Squares : KnightJump(s, t)}

\* attacks on an empty board
GetRookAttacks(s) == {t \in Squares : RookLine(s, t)}

GetBishopAttacks(s) == {t \in Squares : BishopLine(s, t)}

GetQueenAttacks(s) == GetRookAttacks(s) \cup GetBishopAttacks(s)

\* the bitboard 'attacks' of InitAccumulatorDeltas for (color, piece, squareA)
DeltaTargets(color, piece, squareA) ==
    CASE piece = Pawn ->
            GetPawnAttacks(squareA, color)
            \cup (IF color = White
                  THEN Shifted(squareA, 0, 1)
                       \cup {t \in Shifted(squareA, 0, 2) : RankOf(t) = 3}
                  ELSE Shifted(squareA, 0, -1)
                       \cup {t \in Shifted(squareA, 0, -2) : RankOf(t) = 4})
      [] piece = Knight -> GetKnightAttacks(squareA)
      [] piece = Bishop -> GetBishopAttacks(squareA)
      [] piece = Rook -> GetRookAttacks(squareA)
      [] piece = Queen -> GetQueenAttacks(squareA)
      [] piece = King ->
            GetKingAttacks(squareA)
            \cup (IF color = White /\ RankOf(squareA) = 0
                  THEN {SquareAt(1, 0), SquareAt(2, 0), SquareAt(5, 0), SquareAt(6, 0)}
                  ELSE IF color = Black /\ RankOf(squareA) = 7
                  THEN {SquareAt(1, 7), SquareAt(2, 7), SquareAt(5, 7), SquareAt(6, 7)}
                  ELSE {})

\* the position of (color, pieceIdx, squareA) in the three outer loops
DeltaLoopIndex(color, piece, squareA) == (color * 6 + piece) * 64 + squareA

DeltaLoopTargets(k) == DeltaTargets(k \div 384, (k \div 64) % 6, k % 64)

\* the number of squares Iterate visits in pass k of the loops
deltaTargetCounts == [k \in 0..767 |-> Cardinality(DeltaLoopTargets(k))]

RECURSIVE SumTargetCounts(_, _)
SumTargetCounts(lo, hi) ==
    IF lo >= hi THEN 0
    ELSE IF hi = lo + 1 THEN deltaTargetCounts[lo]
    ELSE SumTargetCounts(lo, (lo + hi) \div 2) + SumTargetCounts((lo + hi) \div 2, hi)

\* the value of 'count' at the start of the squareA loop of (color, pieceIdx)
\* number j, and (j = 12) at the end of the loops
deltaBlockStarts == [j \in 0..12 |-> SumTargetCounts(0, 64 * j)]

\* the value of 'count' at the start of pass k of the loops
DeltaStart(k) ==
    IF k = 768 THEN deltaBlockStarts[12]
    ELSE deltaBlockStarts[k \div 64] + SumTargetCounts(64 * (k \div 64), k)

\* memset(accumDeltaIndexTable, -1, ...): the uint16_t of a pair not visited
NoDeltaIndex == 65535

\* accumDeltaIndexTable[color][pieceIdx][squareA][squareB] after
\* InitAccumulatorDeltas: Iterate visits the squares in ascending order
accumDeltaIndexTable(color, piece, squareA, squareB) ==
    IF squareB \in DeltaTargets(color, piece, squareA)
    THEN DeltaStart(DeltaLoopIndex(color, piece, squareA))
         + Cardinality({t \in DeltaTargets(color, piece, squareA) : t < squareB})
    ELSE NoDeltaIndex

\* AccumulatorType is int16_t
Wrap16(x) == ((x + 32768) % 65536) - 32768

AccumElems == 1..AccumulatorSize

GetFeatureIndexInBucket(piece, square, color, kingBucket) ==
    ((kingBucket * 2 + color) * 6 + piece) * 64 + square

\* the network file: the weight of a feature for element i of the accumulator,
\* spread over the whole range of int16_t, and the bias
AccumulatorWeight(feature, i) == Wrap16(feature * 7919 + i * 10473 + 4321)

AccumulatorBias(i) == Wrap16(i * 30011)

\* the vector stored at accumulatorWeights[NumNetworkInputs + kingBucket *
\* NumAccumDeltas + accumDeltaIndex]: Update(zeroAccum, weights, added, removed)
AccumulatorDeltaSaturating(color, piece, squareA, squareB, kingBucket) ==
    [i \in AccumElems |->
        Max(-32768, Min(32767,
            AccumulatorWeight(GetFeatureIndexInBucket(piece, squareB, color, kingBucket), i)
            - AccumulatorWeight(GetFeatureIndexInBucket(piece, squareA, color, kingBucket), i)))]

AccumulatorDelta(color, piece, squareA, squareB, kingBucket) ==
    [i \in AccumElems |->
        Wrap16(0 + AccumulatorWeight(GetFeatureIndexInBucket(piece, squareB, color, kingBucket), i)
                 - AccumulatorWeight(GetFeatureIndexInBucket(piece, squareA, color, kingBucket), i))]

\* ---- the board: a set of pieces [c, p, s] ----
Occupied(board) == {x.s : x \in board}

PieceAt(board, s) == CHOOSE x \in board : x.s = s

KingSquare(board, c) == (CHOOSE x \in board : x.c = c /\ x.p = King).s

\* t is strictly between a and b on one rank, file or diagonal
IsBetween(t, a, b) ==
    /\ t # a /\ t # b
    /\ Min(FileOf(a), FileOf(b)) <= FileOf(t) /\ FileOf(t) <= Max(FileOf(a), FileOf(b))
    /\ Min(RankOf(a), RankOf(b)) <= RankOf(t) /\ RankOf(t) <= Max(RankOf(a), RankOf(b))
    /\ \/ FileOf(a) = FileOf(b)
       \/ RankOf(a) = RankOf(b)
       \/ Abs(FileOf(t) - FileOf(a)) = Abs(RankOf(t) - RankOf(a))

\* Piece::None, Square::Invalid()
NoPiece == 6

NoSquare == 64

MakeMove(x, to, capture, ep, promoteTo, castling) ==
    [piece |-> x.p, from |-> x.s, to |-> to, capture |-> capture, ep |-> ep,
     promoteTo |-> promoteTo, castling |-> castling]

\* the promotions tried
PromoteTo == {Queen, Knight}

\* the pseudo-legal moves of the piece x in the position q (a king is never
\* captured)
PawnMoves(q, x) ==
    LET dr == IF x.c = White THEN 1 ELSE -1
        lastRank == IF x.c = White THEN 7 ELSE 0
        firstRank == IF x.c = White THEN 1 ELSE 6
        occ == Occupied(q.board)
        pushes == {t \in Shifted(x.s, 0, dr) : t \notin occ}
                  \cup {t \in Shifted(x.s, 0, 2 * dr) :
                            /\ RankOf(x.s) = firstRank
                            /\ t \notin occ
                            /\ Shifted(x.s, 0, dr) \cap occ = {}}
        takes == {t \in GetPawnAttacks(x.s, x.c) :
                     t \in occ /\ PieceAt(q.board, t).c # x.c /\ PieceAt(q.board, t).p # King}
        enPassant == {t \in GetPawnAttacks(x.s, x.c) : t = q.ep}
        Promo(t) == IF RankOf(t) = lastRank THEN PromoteTo ELSE {NoPiece}
    IN {m \in [piece : {Pawn}, from : {x.s}, to : pushes, capture : {FALSE}, ep : {FALSE},
                promoteTo : PromoteTo \cup {NoPiece}, castling : {FALSE}] :
                m.promoteTo \in Promo(m.to)}
       \cup {m \in [piece : {Pawn}, from : {x.s}, to : takes, capture : {TRUE}, ep : {FALSE},
                    promoteTo : PromoteTo \cup {NoPiece}, castling : {FALSE}] :
                m.promoteTo \in Promo(m.to)}
       \cup {MakeMove(x, t, TRUE, TRUE, NoPiece, FALSE) : t \in enPassant}

OfficerMoves(q, x) ==
    LET occ == Occupied(q.board)
        attacks == CASE x.p = Knight -> GetKnightAttacks(x.s)
                     [] x.p = Bishop -> GetBishopAttacks(x.s)
                     [] x.p = Rook -> GetRookAttacks(x.s)
                     [] x.p = Queen -> GetQueenAttacks(x.s)
                     [] x.p = King -> GetKingAttacks(x.s)
        open == {t \in attacks : x.p \in {Knight, King} \/ \A o \in occ : ~IsBetween(o, x.s, t)}
    IN {MakeMove(x, t, FALSE, FALSE, NoPiece, FALSE) : t \in open \ occ}
       \cup {MakeMove(x, t, TRUE, FALSE, NoPiece, FALSE) :
                t \in {u \in open \cap occ : PieceAt(q.board, u).c # x.c
                                             /\ PieceAt(q.board, u).p # King}}

\* castling: the king on the e file of its first rank, the rook of a right in
\* its corner, nothing between them
CastlingMoves(q, x) ==
    IF x.p # King \/ FileOf(x.s) # 4 THEN {}
    ELSE {MakeMove(x, SquareAt(IF FileOf(r) = 7 THEN 6 ELSE 2, RankOf(x.s)),
                   FALSE, FALSE, NoPiece, TRUE) :
            r \in {r \in q.rights : RankOf(r) = RankOf(x.s)
                                    /\ RankOf(r) = (IF x.c = White THEN 0 ELSE 7)
                                    /\ \A o \in Occupied(q.board) : ~IsBetween(o, x.s, r)}}

MovesOf(q) ==
    UNION {IF x.p = Pawn THEN PawnMoves(q, x)
           ELSE OfficerMoves(q, x) \cup CastlingMoves(q, x) :
           x \in {y \in q.board : y.c = q.stm}}

\* Position::ClearRookCastlingRights
ClearRookCastlingRights(rights, affectedSquare) == rights \ {affectedSquare}

\* Position::DoMove on the pieces, the en passant square and the castling rights
DoMove(q, move) ==
    LET us == q.stm
        them == GetOppositeColor(us)
        isPromotion == move.piece = Pawn /\ move.promoteTo # NoPiece
        captureSquare == IF move.ep
                         THEN SquareAt(FileOf(move.to), IF RankOf(move.to) = 5 THEN 4 ELSE 3)
                         ELSE move.to
        oldRookSquare == SquareAt(IF FileOf(move.to) = 6 THEN 7 ELSE 0, RankOf(move.from))
        newRookSquare == SquareAt(IF FileOf(move.to) = 6 THEN 5 ELSE 3, RankOf(move.from))
        removed == {[c |-> us, p |-> move.piece, s |-> move.from]}
                   \cup (IF move.capture THEN {PieceAt(q.board, captureSquare)} ELSE {})
                   \cup (IF move.castling THEN {[c |-> us, p |-> Rook, s |-> oldRookSquare]}
                         ELSE {})
        added == {[c |-> us, p |-> IF isPromotion THEN move.promoteTo ELSE move.piece,
                   s |-> move.to]}
                 \cup (IF move.castling THEN {[c |-> us, p |-> Rook, s |-> newRookSquare]}
                       ELSE {})
        afterCapture == IF move.capture THEN ClearRookCastlingRights(q.rights, move.to)
                        ELSE q.rights
        afterKing == IF move.piece = King
                     THEN {r \in afterCapture : RankOf(r) # (IF us = White THEN 0 ELSE 7)}
                     ELSE afterCapture
        afterRook == IF move.piece = Rook THEN ClearRookCastlingRights(afterKing, move.from)
                     ELSE afterKing
    IN [board |-> (q.board \ removed) \cup added,
        stm |-> them,
        ep |-> IF move.piece = Pawn /\ Abs(RankOf(move.to) - RankOf(move.from)) = 2
               THEN SquareAt(FileOf(move.from), (RankOf(move.from) + RankOf(move.to)) \div 2)
               ELSE NoSquare,
        rights |-> afterRook]

\* ---- the features of a perspective ----
FlippedRank(s) == SquareAt(FileOf(s), 7 - RankOf(s))

FlippedFile(s) == SquareAt(7 - FileOf(s), RankOf(s))

\* the board is seen from the perspective's side, and mirrored when the
\* perspective's king stands on files e..h
OwnSide(persp, s) == IF persp = Black THEN FlippedRank(s) ELSE s

Mirrored(board, persp) == FileOf(KingSquare(board, persp)) >= 4

RelativeSquare(board, persp, s) ==
    IF Mirrored(board, persp) THEN FlippedFile(OwnSide(persp, s)) ELSE OwnSide(persp, s)

RelativeColor(persp, c) == IF c = persp THEN White ELSE Black

KingBucket(board, persp) ==
    LET k == RelativeSquare(board, persp, KingSquare(board, persp))
    IN (RankOf(k) \div 4) * 2 + (FileOf(k) \div 2)

FeatureOf(board, persp, x) ==
    GetFeatureIndexInBucket(x.p, RelativeSquare(board, persp, x.s),
                            RelativeColor(persp, x.c), KingBucket(board, persp))

RECURSIVE SumWeights(_, _)
SumWeights(features, i) ==
    IF features = {} THEN 0
    ELSE LET f == CHOOSE f \in features : TRUE
         IN AccumulatorWeight(f, i) + SumWeights(features \ {f}, i)

\* Accumulator::Refresh on the features of the position
Refresh(board, persp) ==
    [i \in AccumElems |->
        Wrap16(AccumulatorBias(i) + SumWeights({FeatureOf(board, persp, x) : x \in board}, i))]

\* the pieces a move slides on the board (the moved piece unless it promotes,
\* the rook of a castling): the piece before and after
SlidePairs(q, after) ==
    {z \in (q.board \ after.board) \X (after.board \ q.board) :
        z[1].c = z[2].c /\ z[1].p = z[2].p}

\* the slides as the perspective sees them
Slides(q, after, persp) ==
    {[color |-> RelativeColor(persp, z[1].c), piece |-> z[1].p,
      from |-> RelativeSquare(q.board, persp, z[1].s),
      to |-> RelativeSquare(q.board, persp, z[2].s)] : z \in SlidePairs(q, after)}

RECURSIVE SumDeltas(_, _, _)
SumDeltas(slides, bucket, i) ==
    IF slides = {} THEN 0
    ELSE LET d == CHOOSE d \in slides : TRUE
         IN AccumulatorDelta(d.color, d.piece, d.from, d.to, bucket)[i]
            + SumDeltas(slides \ {d}, bucket, i)

\* the update of one accumulator over a move: a refresh when the perspective's
\* king changes its side of the board or its bucket, else every slide by its
\* delta vector and every other piece by its feature's weights
UpdateAccumulator(accum, q, after, persp) ==
    IF Mirrored(q.board, persp) # Mirrored(after.board, persp)
       \/ KingBucket(q.board, persp) # KingBucket(after.board, persp)
    THEN Refresh(after.board, persp)
    ELSE LET pairs == SlidePairs(q, after)
             removedFeatures == {FeatureOf(q.board, persp, x) :
                                    x \in (q.board \ after.board) \ {z[1] : z \in pairs}}
             addedFeatures == {FeatureOf(q.board, persp, x) :
                                    x \in (after.board \ q.board) \ {z[2] : z \in pairs}}
         IN [i \in AccumElems |->
                Wrap16(accum[i]
                       + SumDeltas(Slides(q, after, persp), KingBucket(q.board, persp), i)
                       + SumWeights(addedFeatures, i) - SumWeights(removedFeatures, i))]

\* a slide whose pair of squares has no index in accumDeltaIndexTable
MissingDelta(q, after, persp) ==
    /\ Mirrored(q.board, persp) = Mirrored(after.board, persp)
    /\ KingBucket(q.board, persp) = KingBucket(after.board, persp)
    /\ \E d \in Slides(q, after, persp) :
          accumDeltaIndexTable(d.color, d.piece, d.from, d.to) = NoDeltaIndex

PieceOn(c, p, file, rank) == [c |-> c, p |-> p, s |-> SquareAt(file, rank)]

\* the positions searched from
NNPositions ==
    {[board |-> {PieceOn(White, King, 4, 0), PieceOn(White, Rook, 7, 0),
                 PieceOn(White, Rook, 0, 0), PieceOn(White, Pawn, 4, 1),
                 PieceOn(White, Pawn, 1, 6),
                 PieceOn(Black, King, 4, 7), PieceOn(Black, Rook, 0, 7),
                 PieceOn(Black, Knight, 2, 7), PieceOn(Black, Pawn, 3, 3)},
      stm |-> White, ep |-> NoSquare,
      rights |-> {SquareAt(7, 0), SquareAt(0, 0), SquareAt(0, 7)}],
     [board |-> {PieceOn(White, King, 2, 0), PieceOn(White, Queen, 3, 0),
                 PieceOn(White, Bishop, 5, 0),
                 PieceOn(Black, King, 1, 7), PieceOn(Black, Pawn, 6, 1),
                 PieceOn(Black, Knight, 5, 5)},
      stm |-> Black, ep |-> NoSquare, rights |-> {}]}

NNStart(q) ==
    [pos |-> q, accum |-> [persp \in Colors |-> Refresh(q.board, persp)],
     plies |-> 0, missing |-> FALSE, move |-> <<>>, refreshed |-> {}, used |-> {}]

\* one move of the search: DoMove, then the update of both accumulators
NNDoMove ==
    /\ nn.plies < MaxPlies
    /\ \E move \in MovesOf(nn.pos) :
          LET after == DoMove(nn.pos, move)
          IN nn' = [pos |-> after,
                    accum |-> [persp \in Colors |->
                                 UpdateAccumulator(nn.accum[persp], nn.pos, after, persp)],
                    plies |-> nn.plies + 1,
                    missing |-> nn.missing
                                \/ \E persp \in Colors : MissingDelta(nn.pos, after, persp),
                    move |-> move,
                    used |-> UNION {{[persp |-> persp, slide |-> d,
                                      bucket |-> KingBucket(nn.pos.board, persp)] :
                                        d \in Slides(nn.pos, after, persp)} :
                                    persp \in {r \in Colors :
                                        /\ Mirrored(nn.pos.board, r) = Mirrored(after.board, r)
                                        /\ KingBucket(nn.pos.board, r)
                                           = KingBucket(after.board, r)}},
                    refreshed |-> {persp \in Colors :
                                     \/ Mirrored(nn.pos.board, persp) # Mirrored(after.board, persp)
                                     \/ KingBucket(nn.pos.board, persp)
                                        # KingBucket(after.board, persp)}]
    /\ UNCHANGED <<baseVars, see, walk, lateVars>>

NNInit ==
    /\ TTUnused
    /\ SearchIdle
    /\ node = NoNode
    /\ asp = NoAsp
    /\ stats = <<>>
    /\ cache = <<>>
    /\ rebias = <<>>
    /\ see = <<>>
    /\ walk = <<>>
    /\ LateIdle
    /\ nn \in {NNStart(q) : q \in NNPositions}

SpecNN == NNInit /\ [][NNDoMove]_vars

(***************************************************************************)
(* Position::StaticExchangeEvaluation.                                     *)
(***************************************************************************)
pawnValue == 100

knightValue == 300

bishopValue == 300

rookValue == 500

queenValue == 900

\* INT32_MAX
kingValue == 2147483647

\* c_seePieceValues, indexed by the piece (NoPiece: 'none')
c_seePieceValues(piece) ==
    CASE piece = NoPiece -> 0
      [] piece = Pawn -> pawnValue
      [] piece = Knight -> knightValue
      [] piece = Bishop -> bishopValue
      [] piece = Rook -> rookValue
      [] piece = Queen -> queenValue
      [] piece = King -> kingValue

\* GenerateRookAttacks, GenerateBishopAttacks: t is among the attacks of a
\* slider standing on 'square' with the given occupied squares
RookSees(square, t, occupied) ==
    RookLine(square, t) /\ \A o \in occupied : ~IsBetween(o, square, t)

BishopSees(square, t, occupied) ==
    BishopLine(square, t) /\ \A o \in occupied : ~IsBetween(o, square, t)

\* the squares of 'pieces' that are among GetPawnAttacks(square, color)
PawnsAttacking(pieces, square, color) ==
    {s \in pieces : RankOf(s) - RankOf(square) = (IF color = White THEN 1 ELSE -1)
                    /\ Abs(FileOf(s) - FileOf(square)) = 1}

SquaresOf(board, pieces) == {x.s : x \in {y \in board : y.p \in pieces}}

SideOccupied(board, c) == {x.s : x \in {y \in board : y.c = c}}

\* Position::GetAttackers(square): the pieces of both sides attacking it
GetAttackers(board, square) ==
    {s \in SquaresOf(board, {King}) : KingStep(square, s)}
    \cup {s \in SquaresOf(board, {Knight}) : KnightJump(square, s)}
    \cup {s \in SquaresOf(board, {Rook, Queen}) : RookSees(square, s, Occupied(board))}
    \cup {s \in SquaresOf(board, {Bishop, Queen}) : BishopSees(square, s, Occupied(board))}
    \cup PawnsAttacking(SquaresOf(board, {Pawn}) \cap SideOccupied(board, White),
                        square, Black)
    \cup PawnsAttacking(SquaresOf(board, {Pawn}) \cap SideOccupied(board, Black),
                        square, White)

\* GetPieceAtSquare of one side
SidePieceAt(board, c, s) ==
    IF \E x \in board : x.c = c /\ x.s = s
    THEN (CHOOSE x \in board : x.c = c /\ x.s = s).p
    ELSE NoPiece

FirstBitSet(squares) == CHOOSE s \in squares : \A t \in squares : s <= t

\* balance = c_seePieceValues[capturedPiece] - treshold
SeeStartBalanceNegated(capturedPiece, treshold) ==
    treshold - c_seePieceValues(capturedPiece)

SeeStartBalance(capturedPiece, treshold) ==
    c_seePieceValues(capturedPiece) - treshold

\* the frame of a call: its arguments, then its locals; swaps: the pieces valued
\* so far and the value each was given
SeeCall(board, stm, from, to, treshold) ==
    [board |-> board, stm |-> stm, from |-> from, to |-> to, treshold |-> treshold,
     pc |-> "entry", occupied |-> {}, allAttackers |-> {}, balance |-> 0,
     sideToMove |-> stm, result |-> 1, ret |-> FALSE, swaps |-> <<>>]

SeeReturn(f, value) == [f EXCEPT !.pc = "done", !.ret = value]

\* the code before the loop
SeeEntry(f) ==
    LET capturedPiece == SidePieceAt(f.board, GetOppositeColor(f.stm), f.to)
        movedPiece == SidePieceAt(f.board, f.stm, f.from)
        balance1 == SeeStartBalance(capturedPiece, f.treshold)
        balance2 == c_seePieceValues(movedPiece) - balance1
        valued == <<[piece |-> capturedPiece, value |-> c_seePieceValues(capturedPiece)]>>
    IN IF balance1 < 0
       THEN SeeReturn([f EXCEPT !.balance = balance1, !.swaps = valued], FALSE)
       ELSE IF balance2 <= 0
       THEN SeeReturn([f EXCEPT !.balance = balance2,
                                !.swaps = Append(valued, [piece |-> movedPiece,
                                            value |-> c_seePieceValues(movedPiece)])], TRUE)
       ELSE [f EXCEPT !.pc = "loop",
                      !.balance = balance2,
                      !.swaps = Append(valued, [piece |-> movedPiece,
                                                value |-> c_seePieceValues(movedPiece)]),
                      !.occupied = (Occupied(f.board) \ {f.from}) \cup {f.to},
                      !.allAttackers = GetAttackers(f.board, f.to)]

\* the sliders that attack toSquare along a diagonal (a rank or file) with the
\* given occupied squares
DiagonalAttackers(f, occupied) ==
    {s \in SquaresOf(f.board, {Bishop, Queen}) : BishopSees(f.to, s, occupied)}

StraightAttackers(f, occupied) ==
    {s \in SquaresOf(f.board, {Rook, Queen}) : RookSees(f.to, s, occupied)}

\* one pass of the loop
SeeIterate(f) ==
    LET sideToMove == GetOppositeColor(f.sideToMove)
        allAttackers == f.allAttackers \cap f.occupied
        ourAttackers == allAttackers \cap SideOccupied(f.board, sideToMove)
        result == 1 - f.result
        Of(piece) == ourAttackers \cap SquaresOf(f.board, {piece})
        \* the branch of one piece: remove the attacker, add the sliders behind
        \* it, balance = value - balance
        Recapture(piece, value, diagonal, straight) ==
            LET occupied == f.occupied \ {FirstBitSet(Of(piece))}
                balance == value - f.balance
                g == [f EXCEPT !.sideToMove = sideToMove,
                               !.result = result,
                               !.occupied = occupied,
                               !.allAttackers =
                                    allAttackers
                                    \cup (IF diagonal THEN DiagonalAttackers(f, occupied) ELSE {})
                                    \cup (IF straight THEN StraightAttackers(f, occupied) ELSE {}),
                               !.balance = balance,
                               !.swaps = Append(@, [piece |-> piece, value |-> value])]
            IN IF balance < result THEN SeeReturn(g, result # 0) ELSE g
    IN IF ourAttackers = {}
       THEN SeeReturn([f EXCEPT !.sideToMove = sideToMove, !.allAttackers = allAttackers],
                      f.result # 0)
       ELSE IF Of(Pawn) # {} THEN Recapture(Pawn, pawnValue, TRUE, FALSE)
       ELSE IF Of(Knight) # {} THEN Recapture(Knight, knightValue, FALSE, FALSE)
       ELSE IF Of(Bishop) # {} THEN Recapture(Bishop, bishopValue, TRUE, FALSE)
       ELSE IF Of(Rook) # {} THEN Recapture(Rook, rookValue, FALSE, TRUE)
       ELSE IF Of(Queen) # {} THEN Recapture(Queen, rookValue, TRUE, TRUE)
       ELSE \* king
            LET flipped ==
                    IF allAttackers \cap SideOccupied(f.board, GetOppositeColor(f.stm)) # {}
                    THEN 1 - result ELSE result
            IN SeeReturn([f EXCEPT !.sideToMove = sideToMove,
                                   !.allAttackers = allAttackers,
                                   !.result = flipped,
                                   !.swaps = Append(@, [piece |-> King, value |-> kingValue])],
                         flipped # 0)

SeeStep(f) == IF f.pc = "entry" THEN SeeEntry(f) ELSE SeeIterate(f)

\* Position::StaticExchangeEvaluation(move, treshold)
RECURSIVE SeeRun(_)
SeeRun(f) == IF f.pc = "done" THEN f ELSE SeeRun(SeeStep(f))

StaticExchangeEvaluation(board, stm, from, to, treshold) ==
    SeeRun(SeeCall(board, stm, from, to, treshold)).ret

\* ---- the positions and moves evaluated ----
\* the square the move goes to, and the pieces that may stand around it: for
\* either side a pawn with a bishop behind it, a knight, a queen with a rook
\* behind it, and the king; the side that moves has one or two of them
SeeTarget == SquareAt(3, 4)

SeeWhitePool ==
    {PieceOn(White, Pawn, 2, 3), PieceOn(White, Bishop, 1, 2), PieceOn(White, Knight, 1, 3),
     PieceOn(White, Queen, 3, 1), PieceOn(White, Rook, 3, 0), PieceOn(White, King, 4, 3)}

SeeBlackPool ==
    {PieceOn(Black, Pawn, 4, 5), PieceOn(Black, Bishop, 5, 6), PieceOn(Black, Knight, 5, 5),
     PieceOn(Black, Queen, 3, 6), PieceOn(Black, Rook, 3, 7), PieceOn(Black, King, 2, 5)}

\* the piece taken (NoPiece: the move is quiet)
SeeCaptured == {NoPiece, Pawn, Knight, Rook, Queen}

SeeBoards ==
    {w \cup b \cup (IF c = NoPiece THEN {} ELSE {[c |-> Black, p |-> c, s |-> SeeTarget]}) :
        w \in {s \in SUBSET SeeWhitePool : Cardinality(s) \in 1..2},
        b \in {s \in SUBSET SeeBlackPool : Cardinality(s) <= MaxAttackers},
        c \in SeeCaptured}

\* the tresholds of the callers (1, 0, -64 * depth, -120 * depth) and the
\* values around which an exchange turns
SeeTresholds == {-120, -64, 0, 1, 100, 101, 300}

\* the moves of White to the target square: a pawn moves there only to capture
SeeMovers(board) ==
    {s \in GetAttackers(board, SeeTarget) \cap SideOccupied(board, White) :
        PieceAt(board, s).p = Pawn => SidePieceAt(board, Black, SeeTarget) # NoPiece}

SeeEnter ==
    /\ see.pc = "entry"
    /\ see' = SeeEntry(see)
    /\ UNCHANGED <<baseVars, nn, walk, lateVars>>

SeeLoop ==
    /\ see.pc = "loop"
    /\ see' = SeeIterate(see)
    /\ UNCHANGED <<baseVars, nn, walk, lateVars>>

SeeInit ==
    /\ TTUnused
    /\ SearchIdle
    /\ node = NoNode
    /\ asp = NoAsp
    /\ stats = <<>>
    /\ cache = <<>>
    /\ rebias = <<>>
    /\ nn = <<>>
    /\ walk = <<>>
    /\ LateIdle
    /\ \E board \in SeeBoards :
          \E from \in SeeMovers(board), treshold \in SeeTresholds :
             see = SeeCall(board, White, from, SeeTarget, treshold)

SeeNext == SeeEnter \/ SeeLoop

SpecSEE == SeeInit /\ [][SeeNext]_vars

(***************************************************************************)
(* One path of the search tree: NegaMax and QuiescenceNegaMax with the     *)
(* depth of every node, the null-move flags, the extensions and            *)
(* reductions of the move loop, the move filter, the stop flag and the     *)
(* calls of TranspositionTable::Write. The frame of one call is followed   *)
(* from its entry to its return; what a call made by the node returns is   *)
(* an input, and any call the node makes can be followed in turn.          *)
(***************************************************************************)
NullMoveReductionsStartDepth == 2
NullMoveReductions_NullMoveDepthReduction == 4
NullMoveReductions_ReSearchDepthReduction == 4
MaxDepthReduction == 8
LateMoveReductionStartDepth == 3
BetaPruningDepth == 7
BetaMarginMultiplier == 135
AlphaPruningDepth == 5
AlphaMarginMultiplier == 256
RazoringStartDepth == 3
RazoringMarginMultiplier == 128
RazoringMarginBias == 20

\* the depth of the entry written for a position without legal moves
SentinelDepth == 127

\* thread.rootDepth of the iterations followed
RootDepths == {1, MaxRootDepth}

\* the window AspirationWindowSearch enters the root with before any score is
\* known, and the null window of the root singularity search
RootWindow == <<-InfValue, InfValue>>

SingularRootWindow == <<-1, 0>>

\* values a call of NegaMax or QuiescenceNegaMax made by a node of the path
\* returns
WalkScores == {-1, 1, CheckmateValue - 1}

\* values of Evaluate, and of the static evaluation improved from the table
WalkEvalScores == {-(TablebaseWinValue - 1), -1, 1, KnownWinValue}

\* values of ScoreFromTT
WalkTTScores == {-1, 30, KnownWinValue}

\* values of the reduction before it is limited: the table entry and the
\* corrections of the late move reduction
RawReductions == {-1, 1, MaxDepthReduction + 1}

\* std::clamp
Clamp(v, lo, hi) == IF v < lo THEN lo ELSE IF hi < v THEN hi ELSE v

\* NodeInfo::isNullMove of a NodeInfo that is constructed and not assigned: the
\* nodes of the move loops and the root nodes
DefaultIsNullMove == FALSE

\* a call of NegaMax or QuiescenceNegaMax: the NodeInfo it is passed (isInCheck
\* is one of the values of 'inCheck'), and for whom it was made; 'sinceNull'
\* counts the real moves made since the last null move of the path (2: two or
\* more, 3: the path has no null move)
WalkCall(fn, kind, f, height, depth, alpha, beta) ==
    [fn |-> fn, kind |-> kind, height |-> height, depth |-> depth,
     alpha |-> alpha, beta |-> beta,
     hasMoveFilter |-> (kind = "singular"),
     inCheck |-> IF kind = "move" THEN BOOLEAN
                 ELSE IF kind = "null" THEN {FALSE} ELSE {f.isInCheck},
     isNullMove |-> IF kind = "move" THEN DefaultIsNullMove
                    ELSE IF kind = "null" THEN TRUE ELSE f.isNullMove,
     parentIsNullMove |-> IF kind \in {"move", "null"} THEN f.isNullMove
                          ELSE f.parentIsNullMove,
     sinceNull |-> IF kind = "move" THEN (IF f.sinceNull = 3 THEN 3
                                          ELSE Min(2, f.sinceNull + 1))
                   ELSE IF kind = "null" THEN 0 ELSE f.sinceNull,
     parentDepth |-> f.depth]

\* the NodeInfo and the locals of a call at its entry
WalkFrame(c, isInCheck, rootDepth) ==
    [fn |-> c.fn, pc |-> "entry", height |-> c.height, depth |-> c.depth,
     entryDepth |-> c.depth, alpha |-> c.alpha, beta |-> c.beta,
     hasMoveFilter |-> c.hasMoveFilter, isInCheck |-> isInCheck,
     isNullMove |-> c.isNullMove, parentIsNullMove |-> c.parentIsNullMove,
     sinceNull |-> c.sinceNull, rootDepth |-> rootDepth,
     a |-> c.alpha, b |-> c.beta, oldAlpha |-> c.alpha, ttValid |-> FALSE,
     bestValue |-> -InfValue, futilityBase |-> -InfValue,
     moveIndex |-> 0, picked |-> 0, filteredSomeMove |-> FALSE,
     searchAborted |-> FALSE, singularDone |-> FALSE,
     bestMove |-> 0, pvMove |-> 0, skipped |-> {},
     nullMove |-> <<>>, lastMove |-> <<>>, writes |-> <<>>, called |-> {},
     draw |-> "none", ret |-> InvalidValue, exit |-> "none"]

\* the root call of AspirationWindowSearch (with or without the multi-PV
\* filter) at the depth of the iteration, or of the root singularity search at
\* half the depth of an iteration of at least SingularitySearchMinDepth
RootFrames ==
    LET Root(r, depth, w, filter, inCheck) ==
            WalkFrame([fn |-> "NegaMax", height |-> 0, depth |-> depth, alpha |-> w[1],
                       beta |-> w[2], hasMoveFilter |-> filter,
                       isNullMove |-> DefaultIsNullMove,
                       parentIsNullMove |-> FALSE, sinceNull |-> 3], inCheck, r)
    IN {Root(r, r, RootWindow, filter, inCheck) :
           r \in RootDepths, filter \in BOOLEAN, inCheck \in BOOLEAN}
         \cup {Root(r, r \div 2, SingularRootWindow, TRUE, inCheck) :
                  r \in {x \in RootDepths : x >= SingularitySearchMinDepth},
                  inCheck \in BOOLEAN}

WalkIsPvNode(f) == f.beta - f.alpha # 1

WalkReturn(f, v, exit) == [f EXCEPT !.pc = "returned", !.ret = v, !.exit = exit]

\* a call of TranspositionTable::Write for the node's position; 'stopped' is
\* mStopSearch at the call
WalkWrite(f, site, score, depth, bounds, stopped) ==
    [f EXCEPT !.writes = Append(@, [site |-> site, score |-> score, depth |-> depth,
                                    bounds |-> bounds, stopped |-> stopped])]

\* QuiescenceNegaMax(thread, node, ctx) called by NegaMax for its own node
WalkOwnQuiescence(f) ==
    WalkCall("QuiescenceNegaMax", "quiescence", f, f.height, f.depth, f.alpha, f.beta)

\* the search goes on to the move loop; the depth is reduced first when the
\* position was not found in the table
WalkToMoves(f, ttValid) ==
    [f EXCEPT !.pc = "moves", !.ttValid = ttValid,
              !.depth = IF f.depth >= 4 /\ ~ttValid
                        THEN f.depth - (1 + f.depth \div 4) ELSE f.depth]

DoNullMoveUnlessChild(f) == ~f.isNullMove

\* no null move when the node or its parent was reached by a null move
DoNullMove(f) == ~f.isNullMove /\ ~f.parentIsNullMove

\* null move reductions; 'ttAllows' is the condition on the table entry
WalkNullMove(f, ttValid, ttAllows, staticEval, hasNonPawnMaterial) ==
    LET doNullMove == DoNullMove(f)
        depthReduction == NullMoveReductions_NullMoveDepthReduction + f.depth \div 4
                            + Min(3, TruncDiv(staticEval - f.b, 256))
        childNode == WalkCall("NegaMax", "null", f, f.height + 1,
                              f.depth - depthReduction, -f.b, -f.b + 1)
        g == [f EXCEPT !.called = @ \cup {childNode},
                       !.nullMove = [depth |-> f.depth, isInCheck |-> f.isInCheck,
                                     hasNonPawnMaterial |-> hasNonPawnMaterial,
                                     child |-> childNode]]
        h == [g EXCEPT !.depth = @ - NullMoveReductions_ReSearchDepthReduction]
        After(s) ==
            LET nullMoveScore == -s IN
            IF nullMoveScore < f.b THEN {WalkToMoves(g, ttValid)}
            ELSE IF Abs(f.b) < KnownWinValue /\ f.depth < 10
            THEN {WalkReturn(g, IF nullMoveScore >= TablebaseWinValue THEN f.b
                                ELSE nullMoveScore, "nullMove")}
            ELSE IF h.depth <= 0
            THEN {WalkReturn([h EXCEPT !.called = @ \cup {WalkOwnQuiescence(h)}],
                             q, "quiescence") : q \in WalkScores}
            ELSE {WalkToMoves(h, ttValid)}
    IN IF /\ staticEval >= f.b
          /\ f.depth >= NullMoveReductionsStartDepth
          /\ ttAllows
          /\ hasNonPawnMaterial
          /\ doNullMove
       THEN UNION {After(s) : s \in WalkScores}
       ELSE {WalkToMoves(f, ttValid)}

\* the pruning before the move loop, for one static evaluation
WalkPruning(f, ttValid, ttAllows, staticEval, isImproving, hasNonPawnMaterial) ==
    LET g == [f EXCEPT !.called = @ \cup {WalkOwnQuiescence(f)}] IN
    IF /\ f.depth <= BetaPruningDepth
       /\ staticEval <= KnownWinValue
       /\ staticEval >= f.b + BetaMarginBias + BetaMarginMultiplier * (f.depth - isImproving)
    THEN {WalkReturn(f, staticEval, "betaPruning")}
    ELSE IF /\ f.depth <= AlphaPruningDepth
            /\ f.a < KnownWinValue
            /\ staticEval > -KnownWinValue
            /\ staticEval + AlphaMarginBias + AlphaMarginMultiplier * f.depth <= f.a
    THEN {WalkReturn(f, staticEval, "alphaPruning")}
    ELSE IF /\ f.depth <= RazoringStartDepth
            /\ f.b < KnownWinValue
            /\ staticEval + RazoringMarginBias + RazoringMarginMultiplier * f.depth < f.b
    THEN UNION {IF qScore < f.b THEN {WalkReturn(g, qScore, "razoring")}
                ELSE WalkNullMove(g, ttValid, ttAllows, staticEval, hasNonPawnMaterial) :
                   qScore \in WalkScores}
    ELSE WalkNullMove(f, ttValid, ttAllows, staticEval, hasNonPawnMaterial)

\* static evaluation and the pruning of a node that is not a PV node, has no
\* move filter and is not in check
WalkStatic(f, ttValid, ttAllows) ==
    IF WalkIsPvNode(f) \/ f.hasMoveFilter \/ f.isInCheck
    THEN {WalkToMoves(f, ttValid)}
    ELSE UNION {WalkPruning(f, ttValid, ttAllows, staticEval, isImproving, nonPawn) :
                   staticEval \in WalkEvalScores,
                   isImproving \in IF f.depth <= BetaPruningDepth THEN {0, 1} ELSE {1},
                   nonPawn \in IF f.depth >= NullMoveReductionsStartDepth
                                THEN BOOLEAN ELSE {FALSE}}

\* the probe of the endgame tables
WalkTablebase(f, ttValid, ttAllows, stopped) ==
    LET Probed(wdl) ==
            LET tbValue == wdl * (TablebaseWinValue - f.height)
                bounds == IF wdl < 0 THEN "Upper" ELSE IF wdl > 0 THEN "Lower" ELSE "Exact"
            IN IF \/ bounds = "Exact"
                  \/ bounds = "Lower" /\ tbValue >= f.b
                  \/ bounds = "Upper" /\ tbValue <= f.a
               THEN {WalkReturn(IF ttValid THEN f
                                ELSE WalkWrite(f, "tablebase", tbValue, f.depth, bounds,
                                               stopped),
                                tbValue, "tablebase")}
               ELSE {}
    IN WalkStatic(f, ttValid, ttAllows)
         \cup (IF f.height # 0 THEN UNION {Probed(wdl) : wdl \in {-1, 0, 1}} ELSE {})

\* the transposition table lookup; 'deep' is ttEntry.depth >= node.depth with
\* a half-move count below 90
WalkLookup(f, stopped) ==
    LET Cuts(ttScore, bounds, deep) ==
            /\ deep
            /\ ~WalkIsPvNode(f)
            /\ ~f.hasMoveFilter
            /\ \/ bounds = "Exact"
               \/ bounds = "Upper" /\ ttScore <= f.a
               \/ bounds = "Lower" /\ ttScore >= f.b
        ttEntries == WalkTTScores \X Bounds \X BOOLEAN
        cut == {WalkReturn(f, IF e[2] = "Exact" THEN e[1]
                              ELSE IF e[2] = "Upper" THEN f.a ELSE f.b, "tt") :
                   e \in {x \in ttEntries : Cuts(x[1], x[2], x[3])}}
        \* the entry is valid, and whether it allows the null move
        kept == {<<TRUE, e[2] # "Upper" \/ e[1] >= f.b>> :
                    e \in {x \in ttEntries : ~Cuts(x[1], x[2], x[3])}}
    IN cut \cup UNION {WalkTablebase(f, k[1], k[2], stopped) :
                         k \in kept \cup {<<FALSE, TRUE>>}}

\* what makes the position of a node a draw: GetHalfMoveCount() >= 100,
\* CheckInsufficientMaterial or SearchUtils::IsRepetition
DrawKinds == {"halfMoves", "material", "repetition"}

\* NegaMax from its entry to the move loop, with every return before the loop;
\* 'draw' is what the draw conditions find for the position (they are not
\* evaluated in the root), and a position without material to mate is scored 0
\* by QuiescenceNegaMax as well
WalkNegaMaxEntry(f, stopped) ==
    LET isRootNode == f.height = 0
        Front(canCycle, draw) ==
            LET cyc == ~isRootNode /\ f.alpha < 0 /\ canCycle
                a1 == IF cyc THEN 0 ELSE f.alpha
                a2 == IF isRootNode THEN a1 ELSE Max(-CheckmateValue + f.height, a1)
                b2 == IF isRootNode THEN f.beta
                      ELSE Min(CheckmateValue - f.height - 1, f.beta)
                g == [f EXCEPT !.draw = draw]
            IN IF cyc /\ a1 >= f.beta THEN {WalkReturn(g, a1, "cycle")}
               ELSE IF f.depth <= 0
               THEN {WalkReturn([g EXCEPT !.called = {WalkOwnQuiescence(f)}],
                                q, "quiescence") :
                        q \in IF draw = "material" THEN {0} ELSE WalkScores}
               ELSE IF ~isRootNode /\ draw # "none" THEN {WalkReturn(g, 0, "draw")}
               ELSE IF ~isRootNode /\ a2 >= b2 THEN {WalkReturn(g, a2, "mateDistance")}
               ELSE WalkLookup([g EXCEPT !.a = a2, !.b = b2], stopped)
    IN UNION {Front(canCycle, draw) :
                canCycle \in BOOLEAN,
                draw \in IF isRootNode THEN {"none"} ELSE DrawKinds \cup {"none"}}

WalkNegaMaxPrologue ==
    /\ walk.fn = "NegaMax"
    /\ walk.pc = "entry"
    /\ walk' \in WalkNegaMaxEntry(walk, mStopSearch)
    /\ mStopSearch' \in {mStopSearch, mStopSearch \/ (walk'.called # {})}
    /\ UNCHANGED walkRest

NoMoveValueAtRoot(f) == IF f.isInCheck THEN -CheckmateValue ELSE 0

\* the value of a node without legal move
WalkNoMoveValue(f) == IF f.isInCheck THEN -CheckmateValue + f.height ELSE 0

WriteBoundsLocalAlpha(f) ==
    IF f.bestValue >= f.b THEN "Lower"
    ELSE IF f.bestValue > Max(f.oldAlpha, -CheckmateValue + f.height) THEN "Exact"
    ELSE "Upper"

\* the bounds of the entry written after the move loop
WriteBounds(f) ==
    IF f.bestValue >= f.b THEN "Lower"
    ELSE IF f.bestValue > f.oldAlpha THEN "Exact"
    ELSE "Upper"

WritesDespiteFilter(f) == TRUE

\* the entry is written only when no move was skipped by the filter
WritesAfterLoop(f) == ~f.filteredSomeMove

\* NegaMax after its move loop: the value of a node without legal move, the
\* write to the transposition table and the return; 'fire' is what
\* CheckStopCondition finds when mStopSearch is not yet set
WalkNegaMaxEpilogue(f, exit, stop, fire) ==
    LET mated == WalkNoMoveValue(f)
        stopNow == stop \/ fire
        bounds == WriteBounds(f)
    IN IF ~f.searchAborted /\ f.moveIndex = 0
       THEN IF f.filteredSomeMove
            THEN [f |-> WalkReturn(f, -InfValue, "noMove"), stop |-> stop]
            ELSE [f |-> WalkReturn(WalkWrite([f EXCEPT !.bestValue = mated], "noMove",
                                             mated, SentinelDepth, "Exact", stop),
                                   mated, "noMove"),
                  stop |-> stop]
       ELSE IF ~WritesAfterLoop(f)
       THEN [f |-> WalkReturn(f, f.bestValue, exit), stop |-> stop]
       ELSE IF stopNow
       THEN [f |-> WalkReturn(f, f.bestValue, exit), stop |-> TRUE]
       ELSE [f |-> WalkReturn(WalkWrite(f, "moves", f.bestValue, f.depth, bounds, stopNow),
                              f.bestValue, exit),
             stop |-> stopNow]

FullDepthSearchAlways(isPvNode, moveIndex) == TRUE

\* doFullDepthSearch before the reduced search
FullDepthSearchFirst(isPvNode, moveIndex) == ~(isPvNode /\ moveIndex = 1)

\* the searches of one move: 'extension' and 'depthReduction' are final,
\* s1, s2, s3 are what the reduced, the full-depth and the full-window search
\* return when they are run
WalkSearches(f, moveIndex, extension, depthReduction, s1, s2, s3) ==
    LET isPvNode == WalkIsPvNode(f)
        Child(depth, alpha, beta) == [depth |-> depth, alpha |-> alpha, beta |-> beta]
        reduced == depthReduction > 0
        r1 == IF reduced
              THEN <<[kind |-> "reduced",
                      call |-> Child(f.depth + extension - 1 - depthReduction,
                                     -f.a - 1, -f.a),
                      score |-> -s1]>>
              ELSE <<>>
        doFullDepthSearch == IF reduced THEN -s1 > f.a
                             ELSE FullDepthSearchFirst(isPvNode, moveIndex)
        r2 == IF doFullDepthSearch
              THEN Append(r1, [kind |-> "full",
                               call |-> Child(f.depth + extension - 1, -f.a - 1, -f.a),
                               score |-> -s2])
              ELSE r1
        score2 == IF r2 = <<>> THEN InvalidValue ELSE r2[Len(r2)].score
        r3 == IF isPvNode /\ (moveIndex = 1 \/ (score2 > f.a /\ score2 < f.b))
              THEN Append(r2, [kind |-> "pv",
                               call |-> Child(f.depth + extension - 1, -f.b, -f.a),
                               score |-> -s3])
              ELSE r2
    IN r3

\* the update of the best move and of alpha after the searches of a move,
\* the beta cutoff and the check of the stop condition
WalkAfterSearch(f, id, moveIndex, extension, depthReduction, searches, stop, stopNow) ==
    LET score == IF searches = <<>> THEN InvalidValue ELSE searches[Len(searches)].score
        improved == score > f.bestValue
        flag == stop \/ stopNow
        g == [f EXCEPT !.picked = id, !.moveIndex = moveIndex,
                       !.bestValue = IF improved THEN score ELSE @,
                       !.bestMove = IF improved THEN id ELSE @,
                       !.pvMove = IF improved /\ WalkIsPvNode(f) THEN id ELSE @,
                       !.called = @ \cup {WalkCall("NegaMax", "move", f, f.height + 1,
                                                    searches[i].call.depth,
                                                    searches[i].call.alpha,
                                                    searches[i].call.beta) :
                                              i \in 1..Len(searches)},
                       !.lastMove = [moveIndex |-> moveIndex, alpha |-> f.a, beta |-> f.b,
                                     depth |-> f.depth, extension |-> extension,
                                     depthReduction |-> depthReduction,
                                     searches |-> searches, score |-> score]]
    IN IF score >= f.b THEN WalkNegaMaxEpilogue(g, "cutoff", flag, FALSE)
       ELSE LET h == [g EXCEPT !.a = IF score > f.a THEN score ELSE @] IN
            IF f.height # 0 /\ flag
            THEN WalkNegaMaxEpilogue([h EXCEPT !.searchAborted = TRUE], "aborted",
                                     TRUE, FALSE)
            ELSE [f |-> h, stop |-> flag]

LimitedExtensionAnyHeight(f, moveExtension) == Clamp(moveExtension, 0, 2)

\* the extension is limited to 2 and is 0 from height 2 * rootDepth on
LimitedExtension(f, moveExtension) ==
    IF f.height < 2 * f.rootDepth THEN Clamp(moveExtension, 0, 2) ELSE 0

\* late move reduction and the searches of a move whose extension is known
WalkReduceAndSearch(f, id, moveIndex, moveExtension, promotesToQueen, stop) ==
    LET extension == LimitedExtension(f, moveExtension)
        raws == IF /\ f.depth >= LateMoveReductionStartDepth
                   /\ ~f.isInCheck
                   /\ moveIndex > 1
                   /\ ~promotesToQueen
                THEN RawReductions ELSE {0}
        Limited(raw) == Clamp(Min(raw, MaxDepthReduction), 0, f.depth + extension - 1)
    IN UNION {
         LET depthReduction == Limited(raw)
             isPvNode == WalkIsPvNode(f)
             S1 == IF depthReduction > 0 THEN WalkScores ELSE {0}
         IN UNION {
              LET S2 == IF (IF depthReduction > 0 THEN -s1 > f.a
                            ELSE FullDepthSearchFirst(isPvNode, moveIndex))
                        THEN WalkScores ELSE {0}
              IN UNION {
                   LET before == IF S2 = {0} THEN -s1 ELSE -s2
                       S3 == IF isPvNode /\ (moveIndex = 1 \/ (before > f.a /\ before < f.b))
                             THEN WalkScores ELSE {0}
                   IN {WalkAfterSearch(f, id, moveIndex, extension, depthReduction,
                                       WalkSearches(f, moveIndex, extension,
                                                    depthReduction, s1, s2, s3),
                                       stop, stopNow) :
                          s3 \in S3, stopNow \in BOOLEAN}
                   : s2 \in S2}
              : s1 \in S1}
         : raw \in raws}

\* singular move detection for the move of the table entry, then the rest of
\* the iteration; a singular score that beats beta ends the node
WalkSingular(f, id, moveIndex, moveExtension, promotesToQueen, stop) ==
    LET Searched(ttScore, singularScore) ==
            LET singularBeta == Max(-CheckmateValue,
                                    ttScore - SingularExtensionScoreMarigin - 2 * f.depth)
                singularChildNode ==
                    WalkCall("NegaMax", "singular", f, f.height, f.depth \div 2,
                             singularBeta - 1, singularBeta)
                g == [f EXCEPT !.singularDone = TRUE, !.called = {singularChildNode}]
                extended == IF singularScore < singularBeta
                            THEN IF f.height < 2 * f.rootDepth THEN moveExtension + 1
                                 ELSE moveExtension
                            ELSE IF ttScore >= f.b THEN 0
                            ELSE moveExtension
            IN IF singularScore >= singularBeta /\ singularScore >= f.b
               THEN {[f |-> WalkReturn([g EXCEPT !.picked = id, !.moveIndex = moveIndex],
                                       singularScore, "singular"),
                      stop |-> flag] : flag \in {stop, TRUE}}
               ELSE WalkReduceAndSearch(g, id, moveIndex, extended, promotesToQueen, stop)
        plain == WalkReduceAndSearch([f EXCEPT !.called = {}], id, moveIndex,
                                     moveExtension, promotesToQueen, stop)
    IN IF /\ f.height # 0
          /\ ~f.hasMoveFilter
          /\ f.ttValid
          /\ ~f.singularDone
          /\ f.depth >= SingularitySearchMinDepth
       THEN plain \cup UNION {Searched(ttScore, singularScore) :
                                 ttScore \in {t \in WalkTTScores : Abs(t) < KnownWinValue},
                                 singularScore \in WalkScores \cup {-InfValue}}
       ELSE plain

\* one iteration of the move loop of NegaMax: the move picked is skipped by the
\* filter, is illegal, is pruned or is searched
WalkNegaMaxMoves(f, stop) ==
    LET id == f.picked + 1
        moveIndex == f.moveIndex + 1
        skip == [f EXCEPT !.picked = id, !.called = {}, !.lastMove = <<>>]
        filtered == IF f.hasMoveFilter
                    THEN {[f |-> [skip EXCEPT !.filteredSomeMove = TRUE,
                                              !.skipped = @ \cup {id}],
                           stop |-> stop]}
                    ELSE {}
        illegal == {[f |-> skip, stop |-> stop]}
        pruned == IF ~f.isInCheck /\ f.height # 0 /\ f.bestValue > -KnownWinValue
                  THEN {[f |-> [skip EXCEPT !.moveIndex = moveIndex], stop |-> stop]}
                  ELSE {}
        extension == IF f.isInCheck /\ f.depth >= 4 THEN 1 ELSE 0
        searched ==
            UNION {WalkSingular(f, id, moveIndex,
                                extension + (IF special = "promotion" THEN 1 ELSE 0)
                                          + (IF special = "sixth" THEN 1 ELSE 0),
                                special = "promotion", stop) :
                      special \in {"none", "promotion", "sixth"}}
    IN filtered \cup illegal \cup pruned \cup searched

WalkNegaMaxMove ==
    /\ walk.fn = "NegaMax"
    /\ walk.pc = "moves"
    /\ walk.picked < MaxPicks
    /\ \E r \in WalkNegaMaxMoves(walk, mStopSearch) :
          /\ walk' = r.f
          /\ mStopSearch' = r.stop
    /\ UNCHANGED walkRest

\* the move loop of NegaMax is over: the picker has no more move (the root
\* position has a legal move)
WalkNegaMaxFinish ==
    /\ walk.fn = "NegaMax"
    /\ walk.pc = "moves"
    /\ walk.height = 0 => (walk.moveIndex > 0 \/ walk.filteredSomeMove)
    /\ \E fire \in BOOLEAN :
          LET r == WalkNegaMaxEpilogue([walk EXCEPT !.called = {}, !.lastMove = <<>>],
                                       "moves", mStopSearch, fire)
          IN /\ walk' = r.f
             /\ mStopSearch' = r.stop
    /\ UNCHANGED walkRest

\* QuiescenceNegaMax from its entry to the move loop
WalkQuiescenceEntry(f, stopped) ==
    LET StandPat(ttValid, useTT, ttScore, staticEval) ==
            LET bestValue == IF useTT THEN ttScore ELSE staticEval
                alpha == Max(f.alpha, bestValue)
            IN IF bestValue >= f.beta
               THEN WalkReturn(IF ttValid THEN f
                               ELSE WalkWrite(f, "standPat", bestValue, 0, "Lower", stopped),
                               bestValue, "standPat")
               ELSE [f EXCEPT !.pc = "moves", !.ttValid = ttValid, !.bestValue = bestValue,
                              !.a = alpha, !.oldAlpha = alpha,
                              !.futilityBase = bestValue + 150]
        InCheck(ttValid) ==
            [f EXCEPT !.pc = "moves", !.ttValid = ttValid,
                      !.bestValue = -CheckmateValue + f.height]
        Hit(ttScore, bounds) ==
            IF bounds = "Exact" THEN {WalkReturn(f, ttScore, "tt")}
            ELSE IF bounds = "Upper" /\ ttScore <= f.alpha THEN {WalkReturn(f, f.alpha, "tt")}
            ELSE IF bounds = "Lower" /\ ttScore >= f.beta THEN {WalkReturn(f, f.beta, "tt")}
            ELSE IF f.isInCheck THEN {InCheck(TRUE)}
            ELSE {StandPat(TRUE,
                           /\ Abs(ttScore) < KnownWinValue
                           /\ \/ bounds = "Lower" /\ ttScore > staticEval
                              \/ bounds = "Upper" /\ ttScore < staticEval,
                           ttScore, staticEval) : staticEval \in WalkEvalScores}
        Miss == IF f.isInCheck THEN {InCheck(FALSE)}
                ELSE {StandPat(FALSE, FALSE, InvalidValue, staticEval) :
                         staticEval \in WalkEvalScores}
    IN {WalkReturn(f, 0, "draw")}
         \cup Miss
         \cup UNION {Hit(ttScore, bounds) : ttScore \in WalkTTScores, bounds \in Bounds}

WalkQuiescencePrologue ==
    /\ walk.fn = "QuiescenceNegaMax"
    /\ walk.pc = "entry"
    /\ walk' \in WalkQuiescenceEntry(walk, mStopSearch)
    /\ UNCHANGED <<mStopSearch, walkRest>>

\* QuiescenceNegaMax after its move loop; 'deepEntry' is ttEntry.depth > 0
WalkQuiescenceEpilogue(f, exit, stop, deepEntry) ==
    LET bounds == IF f.bestValue >= f.b THEN "Lower"
                  ELSE IF f.bestValue > f.oldAlpha THEN "Exact"
                  ELSE "Upper"
    IN IF ~f.searchAborted /\ f.isInCheck /\ f.moveIndex = 0
       THEN WalkReturn(f, -CheckmateValue + f.height, "noMove")
       ELSE IF f.searchAborted \/ (f.bestValue <= f.oldAlpha /\ f.ttValid /\ deepEntry)
       THEN WalkReturn(f, f.bestValue, exit)
       ELSE WalkReturn(WalkWrite(f, "quiescence", f.bestValue, 0, bounds, stop),
                       f.bestValue, exit)

\* one iteration of the move loop of QuiescenceNegaMax
WalkQuiescenceMoves(f, stop) ==
    LET id == f.picked + 1
        moveIndex == f.moveIndex + 1
        skip == [f EXCEPT !.picked = id, !.called = {}, !.lastMove = <<>>]
        skipped == {[f |-> skip, stop |-> stop]}
        futile == IF ~f.isInCheck /\ f.futilityBase > -KnownWinValue /\ f.futilityBase <= f.a
                  THEN {[f |-> [skip EXCEPT !.bestValue = Max(@, f.futilityBase)],
                         stop |-> stop]}
                  ELSE {}
        counted == [skip EXCEPT !.moveIndex = moveIndex]
        enough == /\ f.bestMove # 0
                  /\ \/ f.depth < -4 /\ moveIndex > 1
                     \/ f.depth < -2 /\ moveIndex > 2
                     \/ f.depth < 0 /\ moveIndex > 3
        childNode == WalkCall("QuiescenceNegaMax", "move", f, f.height + 1, f.depth - 1,
                              -f.b, -f.a)
        Searched(s, stopNow, deepEntry) ==
            LET score == -s
                improved == score > f.bestValue
                flag == stop \/ stopNow
                g == [counted EXCEPT !.called = {childNode},
                                     !.bestValue = IF improved THEN score ELSE @,
                                     !.bestMove = IF improved THEN id ELSE @,
                                     !.pvMove = IF improved /\ WalkIsPvNode(f) THEN id ELSE @,
                                     !.lastMove = [moveIndex |-> moveIndex, alpha |-> f.a,
                                                   beta |-> f.b, score |-> score,
                                                   stopped |-> flag]]
                h == [g EXCEPT !.a = IF improved /\ score > f.a THEN score ELSE @]
            IN IF improved /\ score >= f.b
               THEN [f |-> WalkQuiescenceEpilogue(g, "cutoff", flag, deepEntry),
                     stop |-> flag]
               ELSE IF flag
               THEN [f |-> WalkQuiescenceEpilogue([h EXCEPT !.searchAborted = TRUE],
                                                  "aborted", TRUE, deepEntry),
                     stop |-> TRUE]
               ELSE [f |-> h, stop |-> flag]
    IN skipped \cup futile
         \cup (IF enough
               THEN {[f |-> WalkQuiescenceEpilogue(counted, "moves", stop, deepEntry),
                      stop |-> stop] : deepEntry \in BOOLEAN}
               ELSE {Searched(s, stopNow, deepEntry) :
                        s \in WalkScores, stopNow \in BOOLEAN, deepEntry \in BOOLEAN})

WalkQuiescenceMove ==
    /\ walk.fn = "QuiescenceNegaMax"
    /\ walk.pc = "moves"
    /\ walk.picked < MaxPicks
    /\ \E r \in WalkQuiescenceMoves(walk, mStopSearch) :
          /\ walk' = r.f
          /\ mStopSearch' = r.stop
    /\ UNCHANGED walkRest

\* the move loop of QuiescenceNegaMax is over: the picker has no more move
WalkQuiescenceFinish ==
    /\ walk.fn = "QuiescenceNegaMax"
    /\ walk.pc = "moves"
    /\ \E deepEntry \in BOOLEAN :
          walk' = WalkQuiescenceEpilogue([walk EXCEPT !.called = {}, !.lastMove = <<>>],
                                         "moves", mStopSearch, deepEntry)
    /\ UNCHANGED <<mStopSearch, walkRest>>

\* follow one of the calls the node has just made
WalkDescend ==
    /\ \E c \in walk.called :
          /\ c.height <= MaxWalkHeight
          /\ \E isInCheck \in c.inCheck : walk' = WalkFrame(c, isInCheck, walk.rootDepth)
    /\ UNCHANGED <<mStopSearch, walkRest>>

WalkInit ==
    /\ TTUnused
    /\ SearchIdle
    /\ node = NoNode
    /\ asp = NoAsp
    /\ stats = <<>>
    /\ cache = <<>>
    /\ rebias = <<>>
    /\ nn = <<>>
    /\ see = <<>>
    /\ LateIdle
    /\ walk \in RootFrames

WalkNext ==
    \/ WalkNegaMaxPrologue
    \/ WalkNegaMaxMove
    \/ WalkNegaMaxFinish
    \/ WalkQuiescencePrologue
    \/ WalkQuiescenceMove
    \/ WalkQuiescenceFinish
    \/ WalkDescend

SpecWalk == WalkInit /\ [][WalkNext]_vars

(***************************************************************************)
(* The exits of the iterative deepening loop.                              *)
(*                                                                         *)
(* One DoSearch call with its Search_Internal loops: an iteration is a     *)
(* search step (the aspiration searches of all PV lines, whose nodes call  *)
(* CheckStopCondition) and the checks after it.  The depth counts up to    *)
(* MaxIterations and stays there when limits.maxDepth is UINT16_MAX.       *)
(***************************************************************************)
MateCountStopCondition == 5

\* UINT16_MAX, the limits.maxDepth of a search without depth limit
UnlimitedDepth == 65535

LoopThreads == {0, 1}

\* the arguments of DoSearch that the exits depend on: 'hardLimit' says that
\* there is a limit CheckStopCondition can find exceeded (maxNodes below
\* UINT64_MAX or a valid maxTime), 'onePvLine' is numPvLines == 1
LoopParams ==
    [numThreads : {1, 2}, isPonder : BOOLEAN, analysisMode : BOOLEAN,
     hardLimit : BOOLEAN, idealTimeValid : BOOLEAN,
     rootSingularityTimeValid : BOOLEAN, maxDepth : {2, UnlimitedDepth},
     onePvLine : BOOLEAN]

LoopOff == [pc |-> "off", depth |-> 0, mateCounter |-> 0, early |-> FALSE]

\* CheckStopCondition for the loop model: the flag is set, or a limit is found
\* exceeded outside ponder mode ('over': the limit is exceeded at the call)
LoopCheckStop(flag, p, over) == flag \/ (~p.isPonder /\ p.hardLimit /\ over)

\* who sets mStopSearch first: "none" while it is clear
LoopCause(flag, old, new) == IF flag \/ old # "none" THEN old ELSE new

BreakCallsStopSearchButMate(why) == why # "mate"

\* the main thread calls StopSearch() before every break of its loop
BreakCallsStopSearch(why) == TRUE

\* a thread leaves its loop by break
LoopBreak(f, t) == [f EXCEPT !.pc = "exit", !.early = TRUE]

\* DoSearch is called
LoopEnter ==
    /\ loop.pc = "idle"
    /\ loop' = [loop EXCEPT !.pc = "entered"]
    /\ UNCHANGED mStopSearch

\* mStopSearch = false, then Search_Internal starts on every thread
LoopStart ==
    /\ loop.pc = "entered"
    /\ mStopSearch' = FALSE
    /\ loop' = [loop EXCEPT !.pc = "running", !.cause = "none",
                            !.th = [t \in LoopThreads |->
                                      IF t < loop.param.numThreads
                                      THEN [LoopOff EXCEPT !.pc = "loop", !.depth = 1]
                                      ELSE LoopOff]]

\* Search::StopSearch called from outside the search
LoopStopSearch ==
    /\ loop.pc \in {"entered", "running"}
    /\ mStopSearch' = TRUE
    /\ loop' = [loop EXCEPT !.cause = LoopCause(mStopSearch, @, "external")]

\* the header of the loop and the searches of an iteration: the nodes searched
\* call CheckStopCondition
LoopSearch(t) ==
    /\ loop.pc = "running"
    /\ loop.th[t].pc = "loop"
    /\ LET f == loop.th[t]
           p == loop.param
       IN IF f.depth > p.maxDepth
          THEN /\ loop' = [loop EXCEPT !.th[t].pc = "exit"]
               /\ UNCHANGED mStopSearch
          ELSE \E over \in BOOLEAN :
                 LET stop == LoopCheckStop(mStopSearch, p, over) IN
                 /\ mStopSearch' = stop
                 /\ loop' = [loop EXCEPT !.th[t].pc = "rootCheck",
                                         !.cause = IF stop
                                                   THEN LoopCause(mStopSearch, @, "limit")
                                                   ELSE @]

\* the rest of an iteration.  After the search the loop is left, from depth 2
\* on, when CheckStopCondition holds; else the mate counter is updated and the
\* main thread leaves on the soft time limit, on a mate found
\* MateCountStopCondition times in a row, or when the root singularity search
\* confirms the first move; 'softValid' is maxTimeSoft.IsValid() after the
\* update of the time manager
LoopIterationEnd(t) ==
    /\ loop.pc = "running"
    /\ loop.th[t].pc = "rootCheck"
    /\ \E over, isMate, softValid, softOver, singular, singularScoreLow \in BOOLEAN :
          LET f == loop.th[t]
              p == loop.param
              isMainThread == t = 0
              finishSearchAtDepth == f.depth > 1 /\ LoopCheckStop(mStopSearch, p, over)
              mateCounter == IF ~isMainThread THEN f.mateCounter
                             ELSE IF isMate
                             THEN Min(f.mateCounter + 1, MateCountStopCondition)
                             ELSE 0
              next == [f EXCEPT !.pc = "loop", !.depth = Min(@ + 1, MaxIterations),
                                !.mateCounter = mateCounter]
              Leave(why) ==
                  LET called == BreakCallsStopSearch(why) IN
                  /\ mStopSearch' = (mStopSearch \/ called)
                  /\ loop' = [loop EXCEPT !.th[t] = LoopBreak(f, t),
                                          !.cause = IF called
                                                    THEN LoopCause(mStopSearch, @, why)
                                                    ELSE @]
          IN /\ (isMainThread /\ ~p.isPonder /\ ~p.analysisMode) \/ softValid = p.idealTimeValid
             /\ IF finishSearchAtDepth
                THEN /\ mStopSearch' = TRUE
                     /\ loop' = [loop EXCEPT !.th[t] = LoopBreak(f, t),
                                             !.cause = LoopCause(mStopSearch, @, "limit")]
                ELSE IF isMainThread /\ ~p.isPonder /\ softValid /\ softOver
                THEN Leave("soft")
                ELSE IF /\ isMainThread
                        /\ ~p.isPonder
                        /\ ~p.analysisMode
                        /\ mateCounter >= MateCountStopCondition
                        /\ p.maxDepth = UnlimitedDepth
                THEN Leave("mate")
                ELSE IF /\ isMainThread
                        /\ p.onePvLine
                        /\ f.depth >= SingularitySearchMinDepth
                        /\ p.rootSingularityTimeValid
                        /\ singular
                THEN IF singularScoreLow \/ LoopCheckStop(mStopSearch, p, over)
                     THEN /\ mStopSearch' = TRUE
                          /\ loop' = [loop EXCEPT
                                        !.th[t] = LoopBreak(f, t),
                                        !.cause = LoopCause(mStopSearch, @,
                                                            IF singularScoreLow
                                                            THEN "singular" ELSE "limit")]
                     ELSE /\ mStopSearch' = mStopSearch
                          /\ loop' = [loop EXCEPT !.th[t] = next]
                ELSE /\ mStopSearch' = mStopSearch
                     /\ loop' = [loop EXCEPT !.th[t] = next]

\* DoSearch returns when every thread has left Search_Internal
LoopJoin ==
    /\ loop.pc = "running"
    /\ \A t \in LoopThreads : t < loop.param.numThreads => loop.th[t].pc = "exit"
    /\ loop' = [loop EXCEPT !.pc = "done"]
    /\ UNCHANGED mStopSearch

loopRest == <<ttVars, concVars, param, search, outResult, th, stopRequested, node, asp,
              stats, cache, rebias, nn, see, walk, res, slots, tm, zob>>

\* the variables of the models above
earlyVars == <<baseVars, nn, see, walk>>

EarlyIdle ==
    /\ TTUnused
    /\ SearchIdle
    /\ node = NoNode
    /\ asp = NoAsp
    /\ stats = <<>>
    /\ cache = <<>>
    /\ rebias = <<>>
    /\ nn = <<>>
    /\ see = <<>>
    /\ walk = <<>>

LoopInit ==
    /\ EarlyIdle
    /\ res = <<>>
    /\ slots = <<>>
    /\ tm = <<>>
    /\ zob = <<>>
    /\ \E p \in LoopParams :
          loop = [pc |-> "idle", param |-> p, cause |-> "none",
                  th |-> [t \in LoopThreads |-> LoopOff]]

LoopNext ==
    \/ (LoopEnter /\ UNCHANGED loopRest)
    \/ (LoopStart /\ UNCHANGED loopRest)
    \/ (LoopStopSearch /\ UNCHANGED loopRest)
    \/ (LoopJoin /\ UNCHANGED loopRest)
    \/ \E t \in LoopThreads :
          (LoopSearch(t) \/ LoopIterationEnd(t)) /\ UNCHANGED loopRest

SpecLoop == LoopInit /\ [][LoopNext]_vars

\* the calling thread runs DoSearch and every started std::thread is scheduled
LoopFairness ==
    /\ WF_vars(LoopStart /\ UNCHANGED loopRest)
    /\ WF_vars(LoopJoin /\ UNCHANGED loopRest)
    /\ \A t \in LoopThreads :
          WF_vars((LoopSearch(t) \/ LoopIterationEnd(t)) /\ UNCHANGED loopRest)

FairSpecLoop == SpecLoop /\ LoopFairness

(***************************************************************************)
(* The SearchResult of a DoSearch call.                                    *)
(*                                                                         *)
(* outResult is a std::vector<PvLine> of the caller, handed by reference   *)
(* to every thread.  A line is the name of who wrote it last.  A call of   *)
(* resize and an assignment of an element take time: they begin and end,   *)
(* and 'raced' records that one began while another thread was inside one. *)
(***************************************************************************)
ResultThreads == {0, 1}

ResultParams ==
    [numThreads : {1, 2}, numPvLines : 1..MaxResultLines, maxDepth : 0..MaxResultDepth]

\* SearchResult::resize: the first n lines are kept, new lines are default-constructed
ResizeLines(lines, n) ==
    [i \in 1..n |-> IF i <= Len(lines) THEN lines[i] ELSE "none"]

ResultOff == [pc |-> "off", depth |-> 0, pvIndex |-> 0]

ThreadName(t) == IF t = 0 THEN "main" ELSE "helper"

\* another thread is inside a call on outResult
OtherInside(t) ==
    \E u \in ResultThreads \ {t} : res.th[u].pc \in {"resizing", "writing"}

\* DoSearch up to the start of the threads: clear, resize(numPvLines), and with
\* maxDepth == 0 resize(1) and the line of the quiescence search
ResultDoSearch ==
    /\ res.pc = "idle"
    /\ LET p == res.param
           lines == IF p.maxDepth = 0
                    THEN [ResizeLines(ResizeLines(<<>>, p.numPvLines), 1) EXCEPT ![1] = "DoSearch"]
                    ELSE ResizeLines(<<>>, p.numPvLines)
       IN res' = [res EXCEPT !.pc = "running", !.lines = lines,
                             !.th = [t \in ResultThreads |->
                                       IF t < p.numThreads
                                       THEN [ResultOff EXCEPT !.pc = "enter"]
                                       ELSE ResultOff]]

\* the end of a pass over a PV line: the next line, the next iteration or the
\* end of the loop
ResultAdvance(f, p) ==
    IF f.pvIndex + 1 < p.numPvLines THEN [f EXCEPT !.pc = "loop", !.pvIndex = @ + 1]
    ELSE IF f.depth + 1 <= p.maxDepth
    THEN [f EXCEPT !.pc = "loop", !.depth = @ + 1, !.pvIndex = 0]
    ELSE [f EXCEPT !.pc = "exit"]

\* Search_Internal begins: outResult.resize(numPvLines) is called
ResultResizeBegin(t) ==
    /\ res.pc = "running"
    /\ res.th[t].pc = "enter"
    /\ res' = [res EXCEPT !.th[t].pc = "resizing", !.raced = @ \/ OtherInside(t)]

\* the call of resize returns.  A resize to the size the vector has changes
\* nothing; one that changes the size while another thread is inside a call
\* on the vector is a data race, after which the vector has any size
ResultResizeEnd(t) ==
    /\ res.pc = "running"
    /\ res.th[t].pc = "resizing"
    /\ LET p == res.param
           changes == Len(res.lines) # p.numPvLines
       IN \E n \in 0..p.numPvLines :
             /\ (changes /\ (res.raced \/ OtherInside(t))) \/ n = p.numPvLines
             /\ res' = [res EXCEPT
                          !.lines = ResizeLines(@, n),
                          !.helperModified = @ \/ (t # 0 /\ changes),
                          !.raced = @ \/ (changes /\ OtherInside(t)),
                          !.th[t] = IF p.maxDepth >= 1
                                    THEN [@ EXCEPT !.pc = "loop", !.depth = 1]
                                    ELSE [@ EXCEPT !.pc = "exit"]]

\* a PV line has been searched: the main thread begins to assign it to
\* outResult[pvIndex], a helper goes on
ResultLine(t) ==
    /\ res.pc = "running"
    /\ res.th[t].pc = "loop"
    /\ LET isMainThread == t = 0 IN
       IF isMainThread
       THEN res' = [res EXCEPT !.th[t].pc = "writing", !.raced = @ \/ OtherInside(t)]
       ELSE res' = [res EXCEPT !.th[t] = ResultAdvance(@, res.param)]

\* the assignment outResult[pvIndex] = pvLine is done
ResultWriteEnd(t) ==
    /\ res.pc = "running"
    /\ res.th[t].pc = "writing"
    /\ LET i == res.th[t].pvIndex + 1 IN
       res' = [res EXCEPT
                 !.lines = IF i <= Len(@) THEN [@ EXCEPT ![i] = ThreadName(t)] ELSE @,
                 !.outOfRange = @ \/ i > Len(res.lines),
                 !.th[t] = ResultAdvance(@, res.param)]

\* every thread is joined and DoSearch returns
ResultJoin ==
    /\ res.pc = "running"
    /\ \A t \in ResultThreads : t < res.param.numThreads => res.th[t].pc = "exit"
    /\ res' = [res EXCEPT !.pc = "done"]

ResultInit ==
    /\ EarlyIdle
    /\ loop = <<>>
    /\ slots = <<>>
    /\ tm = <<>>
    /\ zob = <<>>
    /\ \E p \in ResultParams :
          res = [pc |-> "idle", param |-> p, lines |-> <<>>, raced |-> FALSE,
                 helperModified |-> FALSE, outOfRange |-> FALSE,
                 th |-> [t \in ResultThreads |-> ResultOff]]

resultRest == <<earlyVars, loop, slots, tm, zob>>

ResultNext ==
    \/ (ResultDoSearch /\ UNCHANGED resultRest)
    \/ (ResultJoin /\ UNCHANGED resultRest)
    \/ \E t \in ResultThreads :
          \/ (ResultResizeBegin(t) /\ UNCHANGED resultRest)
          \/ (ResultResizeEnd(t) /\ UNCHANGED resultRest)
          \/ (ResultLine(t) /\ UNCHANGED resultRest)
          \/ (ResultWriteEnd(t) /\ UNCHANGED resultRest)

SpecResult == ResultInit /\ [][ResultNext]_vars

(***************************************************************************)
(* Node cache: NodeCache::Reset, OnNewSearch and GetEntry.                 *)
(*                                                                         *)
(* A position is its hash (0: the default-constructed Position of an       *)
(* unused entry); 'stats' stands for the statistics of an entry, and       *)
(* 'call' is the last call with its arguments, its return value and the    *)
(* entry of the slot before it.                                            *)
(***************************************************************************)
\* NodeCacheEntry{}: the generation of a default-constructed entry
DefaultGeneration == 0

SlotIndexes == 0..(NodeCacheSize - 1)

CachePositions == 1..MaxCachePositions

DistancesFromRoot == {0, 1}

NoCachePosition == [position |-> 0, generation |-> DefaultGeneration,
                    distanceFromRoot |-> 0, stats |-> 0]

NoSlotCall == [op |-> "none", pos |-> 0, distanceFromRoot |-> 0, index |-> 0,
               found |-> FALSE, before |-> NoCachePosition]

\* NodeCache::Reset
Reset(c) == [c EXCEPT !.generation = 0,
                      !.entries = [i \in SlotIndexes |-> NoCachePosition]]

\* NodeCache::GetEntry: the entry of the slot afterwards and whether a pointer
\* to it is returned (else nullptr)
GetEntry(c, pos, distanceFromRoot) ==
    LET index == pos % NodeCacheSize
        entry == c.entries[index]
    IN IF entry.position = pos
       THEN [entry |-> [entry EXCEPT !.generation = c.generation,
                                     !.distanceFromRoot = distanceFromRoot],
             found |-> TRUE]
       ELSE IF entry.generation < c.generation
       THEN [entry |-> [NoCachePosition EXCEPT !.position = pos,
                                               !.generation = c.generation,
                                               !.distanceFromRoot = distanceFromRoot],
             found |-> TRUE]
       ELSE [entry |-> entry, found |-> FALSE]

SlotsReset ==
    slots' = [Reset(slots) EXCEPT !.call = [NoSlotCall EXCEPT !.op = "Reset"]]

\* NodeCache::OnNewSearch
SlotsOnNewSearch ==
    /\ slots.generation < MaxGeneration
    /\ slots' = [slots EXCEPT !.generation = @ + 1,
                              !.call = [NoSlotCall EXCEPT !.op = "OnNewSearch"]]

SlotsGetEntry ==
    \E pos \in CachePositions, distanceFromRoot \in DistancesFromRoot :
       LET r == GetEntry(slots, pos, distanceFromRoot)
           index == pos % NodeCacheSize
       IN slots' = [slots EXCEPT
                      !.entries[index] = r.entry,
                      !.call = [op |-> "GetEntry", pos |-> pos,
                                distanceFromRoot |-> distanceFromRoot, index |-> index,
                                found |-> r.found, before |-> slots.entries[index]]]

\* the caller updates the statistics of the entry it was given
SlotsUseEntry ==
    /\ slots.call.op = "GetEntry"
    /\ slots.call.found
    /\ slots.entries[slots.call.index].stats < MaxEntryStats
    /\ slots' = [slots EXCEPT !.entries[slots.call.index].stats = @ + 1,
                              !.call = [NoSlotCall EXCEPT !.op = "use"]]

slotsRest == <<earlyVars, loop, res, tm, zob>>

\* a NodeCache after construction and Reset()
SlotsInit ==
    /\ EarlyIdle
    /\ loop = <<>>
    /\ res = <<>>
    /\ tm = <<>>
    /\ zob = <<>>
    /\ slots = [generation |-> 0, entries |-> [i \in SlotIndexes |-> NoCachePosition],
                call |-> NoSlotCall]

SlotsNext ==
    \/ (SlotsReset /\ UNCHANGED slotsRest)
    \/ (SlotsOnNewSearch /\ UNCHANGED slotsRest)
    \/ (SlotsGetEntry /\ UNCHANGED slotsRest)
    \/ (SlotsUseEntry /\ UNCHANGED slotsRest)

SpecSlots == SlotsInit /\ [][SlotsNext]_vars

(***************************************************************************)
(* Time manager: UpdateTimeManager over the iterations of one search.      *)
(*                                                                         *)
(* Factors are kept as integers: the stability factor in 1/1000, the       *)
(* score-change factor in 1/1000, the node-count factor in 1/10000.  A     *)
(* TimePoint is the sequence of its base value and of the factors it was   *)
(* multiplied by, in order (the product is not rounded).                   *)
(***************************************************************************)
TM_NodesCountScale == 199

TM_NodesCountOffset == 53

TM_StabilityScale == 37

TM_StabilityOffset == 1254

TM_ScoreChangeFactorScale == 0

TM_ScoreChangeFactorOffset == 1000

TM_ScoreChangeFactorMin == 50

TM_ScoreChangeFactorMax == 150

\* std::min(10u, state.stabilityCounter)
StabilityCap == 10

\* the first moves of the primary line (0: the line of no iteration)
RootMoves == {1, 2}

\* idealTimeBase in milliseconds (0: not valid)
IdealTimes == {0, 1000}

\* data.bestMoveNodeFraction in percent
NodeFractions == {0, 50, 100}

\* histScores[maxDepth - 1] - currScore
ScoreChanges == {-20, 0, 20}

\* TimePoint::operator *=
Times(timePoint, factor) == Append(timePoint, factor)

\* std::clamp(v, lo, hi)
ClampTo(v, lo, hi) == IF v < lo THEN lo ELSE IF hi < v THEN hi ELSE v

\* the stability counter as it enters the factor
CappedStability(counter) == Min(StabilityCap, counter)

\* stabilityOffset - stabilityFactor * std::min(10u, counter), in 1/1000
StabilityTimeFactor(counter) ==
    TM_StabilityOffset - TM_StabilityScale * CappedStability(counter)

\* clamp(scoreChange * (scoreChange > 0) * scale + offset, minFactor, maxFactor),
\* in 1/1000
ScoreChangeFactor(scoreChange) ==
    ClampTo((IF scoreChange > 0 THEN scoreChange ELSE 0) * TM_ScoreChangeFactorScale
               + TM_ScoreChangeFactorOffset,
            TM_ScoreChangeFactorMin, TM_ScoreChangeFactorMax)

\* (1 - bestMoveNodeFraction) * scale + offset, in 1/10000
NodeCountFactor(fraction) ==
    (100 - fraction) * TM_NodesCountScale + 100 * TM_NodesCountOffset

\* UpdateTimeManager; prevMove is the first move of prevResult[0] (0: none)
UpdateTimeManager(t, currMove, scoreChange, fraction) ==
    IF t.idealTimeBase = 0 \/ t.prevMove = 0
    THEN [t EXCEPT !.updated = FALSE]
    ELSE LET counter == IF t.prevMove = currMove THEN t.stabilityCounter + 1 ELSE 0 IN
         [t EXCEPT !.stabilityCounter = counter,
                   !.capped = CappedStability(counter),
                   !.idealTimeCurrent =
                       Times(Times(Times(<<t.idealTimeBase>>, StabilityTimeFactor(counter)),
                                   ScoreChangeFactor(scoreChange)),
                             NodeCountFactor(fraction)),
                   !.updated = TRUE]

\* the end of an iteration of the main thread: the time manager is updated and
\* the lines of the iteration become the previous ones
TimeManagerUpdate ==
    /\ tm.depth < MaxUpdates
    /\ \E currMove \in RootMoves, scoreChange \in ScoreChanges, fraction \in NodeFractions :
          tm' = [UpdateTimeManager(tm, currMove, scoreChange, fraction) EXCEPT
                   !.depth = @ + 1,
                   !.prevMove = currMove,
                   !.stability = IF tm.prevMove = currMove THEN @ + 1 ELSE 0,
                   !.scoreChange = scoreChange,
                   !.fraction = fraction]

tmRest == <<earlyVars, loop, res, slots, zob>>

\* a search begins: no iteration is done, the counter of the state is 0
TimeManagerInit ==
    /\ EarlyIdle
    /\ loop = <<>>
    /\ res = <<>>
    /\ slots = <<>>
    /\ zob = <<>>
    /\ \E base \in IdealTimes :
          tm = [depth |-> 0, idealTimeBase |-> base,
                idealTimeCurrent |-> <<base>>,
                prevMove |-> 0, stabilityCounter |-> 0, capped |-> 0, stability |-> 0,
                scoreChange |-> 0, fraction |-> 0, updated |-> FALSE]

TimeManagerNext == TimeManagerUpdate /\ UNCHANGED tmRest

SpecTimeManager == TimeManagerInit /\ [][TimeManagerNext]_vars

(***************************************************************************)
(* Position: the hash kept by DoMove and DoNullMove, and ComputeHash.      *)
(*                                                                         *)
(* The keys (s_PiecePositionHash, s_CastlingRightsHash, s_EnPassantFileHash *)
(* and s_BlackToMoveHash) are independent random words: a hash is the set  *)
(* of the keys XORed into it an odd number of times.                       *)
(***************************************************************************)
\* hash ^= key
Xor(hash, key) == IF key \in hash THEN hash \ {key} ELSE hash \cup {key}

\* s_PiecePositionHash[color][piece][square]
PieceKey(c, p, s) == <<"piece", c, p, s>>

\* s_CastlingRightsHash[color][side] of the right whose rook stands on 'corner'
CastlingKey(corner) == <<"castling", corner>>

\* s_EnPassantFileHash[file]
EnPassantKey(file) == <<"enPassant", file>>

s_BlackToMoveHash == <<"blackToMove">>

RECURSIVE XorAll(_, _)
XorAll(hash, keys) ==
    IF keys = {} THEN hash
    ELSE LET k == CHOOSE k \in keys : TRUE IN XorAll(Xor(hash, k), keys \ {k})

\* Position::ComputeHash
ComputeHash(q) ==
    LET side == IF q.stm = Black THEN {s_BlackToMoveHash} ELSE {}
        pieces == XorAll(side, {PieceKey(x.c, x.p, x.s) : x \in q.board})
        castling == XorAll(pieces, {CastlingKey(r) : r \in q.rights})
    IN IF q.ep # NoSquare THEN Xor(castling, EnPassantKey(FileOf(q.ep))) ELSE castling

\* SetEnPassantSquare that leaves the key of the old square in the hash
HashKeepsEnPassant(hash, old, square) ==
    IF square # NoSquare THEN Xor(hash, EnPassantKey(FileOf(square))) ELSE hash

\* Position::SetEnPassantSquare on the hash
HashSetEnPassantSquare(hash, old, square) ==
    LET h1 == IF old # NoSquare THEN Xor(hash, EnPassantKey(FileOf(old))) ELSE hash
    IN IF square # NoSquare THEN Xor(h1, EnPassantKey(FileOf(square))) ELSE h1

\* Position::ClearRookCastlingRights on the hash
HashClearRookCastlingRights(hash, rights, affectedSquare) ==
    IF affectedSquare \in rights THEN Xor(hash, CastlingKey(affectedSquare)) ELSE hash

\* the updates of mHash in Position::DoMove, in the order of the code; q is the
\* position before the move and 'after' the one DoMove leaves
HashDoMove(hash, q, move, after) ==
    LET us == q.stm
        them == GetOppositeColor(us)
        isPromotion == move.piece = Pawn /\ move.promoteTo # NoPiece
        firstRank == IF us = White THEN 0 ELSE 7
        h1 == Xor(hash, PieceKey(us, move.piece, move.from))
        h2 == IF move.capture /\ ~move.ep
              THEN Xor(h1, PieceKey(them, PieceAt(q.board, move.to).p, move.to))
              ELSE h1
        h3 == IF move.capture THEN HashClearRookCastlingRights(h2, q.rights, move.to)
              ELSE h2
        rights3 == IF move.capture THEN ClearRookCastlingRights(q.rights, move.to)
                   ELSE q.rights
        h4 == Xor(h3, PieceKey(us, IF isPromotion THEN move.promoteTo ELSE move.piece,
                               move.to))
        captureSquare == SquareAt(FileOf(move.to), IF RankOf(move.to) = 5 THEN 4 ELSE 3)
        h5 == IF move.ep THEN Xor(h4, PieceKey(them, Pawn, captureSquare)) ELSE h4
        h6 == HashSetEnPassantSquare(h5, q.ep, after.ep)
        oldRookSquare == SquareAt(IF FileOf(move.to) = 6 THEN 7 ELSE 0, RankOf(move.from))
        newRookSquare == SquareAt(IF FileOf(move.to) = 6 THEN 5 ELSE 3, RankOf(move.from))
        h7 == IF move.piece = King /\ move.castling
              THEN Xor(Xor(h6, PieceKey(us, Rook, oldRookSquare)),
                       PieceKey(us, Rook, newRookSquare))
              ELSE h6
        h8 == IF move.piece = King
              THEN XorAll(h7, {CastlingKey(r) : r \in {x \in rights3 : RankOf(x) = firstRank}})
              ELSE h7
        rights8 == IF move.piece = King THEN {x \in rights3 : RankOf(x) # firstRank}
                   ELSE rights3
        h9 == IF move.piece = Rook THEN HashClearRookCastlingRights(h8, rights8, move.from)
              ELSE h8
    IN Xor(h9, s_BlackToMoveHash)

\* Position::DoNullMove
DoNullMove_Position(q) == [q EXCEPT !.ep = NoSquare, !.stm = GetOppositeColor(q.stm)]

HashDoNullMove(hash, q) ==
    Xor(HashSetEnPassantSquare(hash, q.ep, NoSquare), s_BlackToMoveHash)

ZobDoMove ==
    /\ zob.plies < MaxHashPlies
    /\ \E move \in MovesOf(zob.pos) :
          LET after == DoMove(zob.pos, move) IN
          zob' = [pos |-> after, mHash |-> HashDoMove(zob.mHash, zob.pos, move, after),
                  plies |-> zob.plies + 1, move |-> move, before |-> zob.pos]

ZobDoNullMove ==
    /\ zob.plies < MaxHashPlies
    /\ zob' = [pos |-> DoNullMove_Position(zob.pos),
               mHash |-> HashDoNullMove(zob.mHash, zob.pos),
               plies |-> zob.plies + 1, move |-> <<>>, before |-> zob.pos]

zobRest == <<earlyVars, loop, res, slots, tm>>

\* a position whose stored hash is ComputeHash()
ZobInit ==
    /\ EarlyIdle
    /\ loop = <<>>
    /\ res = <<>>
    /\ slots = <<>>
    /\ tm = <<>>
    /\ \E q \in NNPositions :
          zob = [pos |-> q, mHash |-> ComputeHash(q), plies |-> 0, move |-> <<>>,
                 before |-> q]

ZobNext ==
    \/ (ZobDoMove /\ UNCHANGED zobRest)
    \/ (ZobDoNullMove /\ UNCHANGED zobRest)

SpecHash == ZobInit /\ [][ZobNext]_vars






(***************************************************************************)
(* Transposition table: claims                                             *)
(***************************************************************************)

\* C1: a Write on a non-empty table leaves the addressed slot as it was exactly
\* when the slot stores the same hash, a strictly greater depth and the same
\* flag; in every other case the slot holds the incoming entry afterwards, and
\* no other slot changes.
C1_WriteReplacement ==
    [][(last'.op = "Write" /\ Len(entries) # 0) =>
        LET e == last'.arg
            i == SlotOf(e.positionHash, Len(entries))
        IN /\ Len(entries') = Len(entries)
           /\ \A j \in 1..Len(entries) : j # i => entries'[j] = entries[j]
           /\ IF /\ entries[i].positionHash = e.positionHash
                 /\ entries[i].depth > e.depth
                 /\ entries[i].flag = e.flag
              THEN entries'[i] = entries[i] /\ entries'[i] # e
              ELSE entries'[i] = e]_vars

\* a Write was discarded: the slot still stores the deeper entry of the same hash
C1_Witness ==
    /\ last.op = "Write"
    /\ Len(entries) # 0
    /\ entries[SlotOf(last.arg.positionHash, Len(entries))] # last.arg
    /\ entries[SlotOf(last.arg.positionHash, Len(entries))].positionHash = last.arg.positionHash

\* every valid entry is stored in the slot its hash addresses
EntriesInOwnSlot ==
    \A i \in 1..Len(entries) :
        IsValid(entries[i]) => SlotOf(entries[i].positionHash, Len(entries)) = i

\* C2: Read reports a hit exactly when the addressed slot stores the queried hash
\* with a flag other than Invalid; the entry of a hit is that slot, stored for the
\* queried hash; an empty or cleared table gives a miss.
C2_ReadHit ==
    /\ EntriesInOwnSlot
    /\ last.op = "Read" =>
        LET h == last.arg.positionHash IN
        /\ last.hit <=> /\ Len(entries) # 0
                        /\ entries[SlotOf(h, Len(entries))].positionHash = h
                        /\ entries[SlotOf(h, Len(entries))].flag # Flag_Invalid
        /\ last.hit => /\ last.res = entries[SlotOf(h, Len(entries))]
                       /\ last.res.positionHash = h
                       /\ last.res \in ValidEntries
        /\ (Len(entries) = 0 \/ \A i \in 1..Len(entries) : entries[i] = ZeroEntry)
              => ~last.hit

\* a Read that hit on a table holding entries of two hashes
C2_Witness ==
    /\ last.op = "Read"
    /\ last.hit
    /\ \E i \in 1..Len(entries) :
          IsValid(entries[i]) /\ entries[i].positionHash # last.arg.positionHash

\* C3 as claimed: a Read made right after Write(e), of e's hash, hits and returns e
\* whatever the table held before.
C3_RoundTripAlways ==
    (last.op = "Read" /\ IsValid(last.prior)) => (last.hit /\ last.res = last.prior)

\* C3 amended: on a table of size 0 the Read misses; otherwise it hits and returns
\* the written entry, or the retained entry of the same hash with a strictly
\* greater depth and the same flag.
C3_RoundTrip ==
    (last.op = "Read" /\ IsValid(last.prior)) =>
        IF Len(entries) = 0 THEN ~last.hit
        ELSE /\ last.hit
             /\ \/ last.res = last.prior
                \/ /\ last.res.positionHash = last.prior.positionHash
                   /\ last.res.depth > last.prior.depth
                   /\ last.res.flag = last.prior.flag

\* a Read right after a Write that returns the entry written, which replaced
\* another hash's entry or an entry of another flag
C3_Witness ==
    /\ last.op = "Read"
    /\ IsValid(last.prior)
    /\ last.hit
    /\ last.res = last.prior
    /\ last.res.depth < MaxEntryDepth

\* the highest index of a valid entry of `old` that a table of n entries stores in slot j
LastMappedTo(old, n, j) ==
    LET ks == {k \in 1..Len(old) : IsValid(old[k]) /\ SlotOf(old[k].positionHash, n) = j}
    IN IF ks = {} THEN 0 ELSE CHOOSE k \in ks : \A m \in ks : m <= k

\* C5: after Resize(n) the table has n entries, every valid entry is a valid old
\* entry in the slot its hash addresses; growing keeps every hit with the same
\* contents; shrinking keeps, per slot, the old entry written last; Resize to the
\* current size changes nothing.
C5_Resize ==
    last.op = "Resize" =>
        LET old == last.old
            n == last.n
        IN /\ Len(entries) = n
           /\ \A j \in 1..n : IsValid(entries[j]) =>
                 /\ SlotOf(entries[j].positionHash, n) = j
                 /\ \E k \in 1..Len(old) : IsValid(old[k]) /\ old[k] = entries[j]
           /\ n >= Len(old) =>
                 \A h \in Hashes : ReadEntry(old, h).hit =>
                     ReadEntry(entries, h) = ReadEntry(old, h)
           /\ \A j \in 1..n :
                 entries[j] = IF LastMappedTo(old, n, j) = 0 THEN ZeroEntry
                              ELSE old[LastMappedTo(old, n, j)]
           /\ n = Len(old) => entries = old

\* a Resize that shrank a table whose two valid entries map to the same new slot
C5_Witness ==
    /\ last.op = "Resize"
    /\ last.n < Len(last.old)
    /\ \E k1, k2 \in 1..Len(last.old) :
          /\ k1 # k2
          /\ IsValid(last.old[k1]) /\ IsValid(last.old[k2])
          /\ SlotOf(last.old[k1].positionHash, last.n) = SlotOf(last.old[k2].positionHash, last.n)

\* C4: under concurrent Writes, an entry that a Read reports as a hit is, field
\* for field, the entry passed to one single Write call.
C4_NoTornHit ==
    (last.op = "Read" /\ last.hit) =>
        \E t \in WriterIds : writers[t].pc # "idle" /\ writers[t].entry = last.res

(***************************************************************************)
(* Search: claims                                                          *)
(***************************************************************************)
Returned == search.pc = "done"

\* C6: when a search is stopped, the result DoSearch returns is the result of
\* the last fully completed iteration (the lines Search_Internal remembered at
\* the end of that iteration), so all returned lines come from one iteration.
C6_LastCompleteIteration ==
    (Returned /\ th[0].finishSearchAtDepth) =>
        /\ outResult = th[0].prevPvLines
        /\ \A i, j \in DOMAIN outResult : outResult[i].iter = outResult[j].iter

\* C7 as stated: at every iteration depth, depth 1 included, no published line
\* comes from a pass during which the stop condition was observed.
C7_NeverPublishesAborted ==
    \A i \in DOMAIN outResult : ~outResult[i].aborted

\* C7 amended: at every iteration depth greater than 1 no published line comes
\* from a pass during which the stop condition was observed, and when the main
\* thread leaves on stop the line published before is still in place; a
\* published line of such a pass is a line of depth 1.
C7_NeverPublishesAbortedAboveDepthOne ==
    /\ \A i \in DOMAIN outResult : outResult[i].aborted => outResult[i].iter = 1
    /\ th[0].finishSearchAtDepth =>
          outResult[th[0].pvIndex + 1] = th[0].prevPvLines[th[0].pvIndex + 1]

\* a pass of depth 2 observed the stop condition, the main thread left, and the
\* published line is still the one of depth 1
C7_Witness ==
    /\ th[0].pc = "exit"
    /\ th[0].finishSearchAtDepth
    /\ th[0].pvLine.aborted
    /\ th[0].pvLine.iter = 2
    /\ th[0].pvIndex = 0
    /\ outResult[1].iter = 1
    /\ outResult[1].move # th[0].pvLine.move

\* C8: a StopSearch() call after DoSearch was entered is not lost, no worker
\* starts a further iteration after it, and DoSearch returns.
C8_StopResponsive ==
    /\ []((stopRequested /\ ~Returned) => mStopSearch)
    /\ [][\A t \in ThreadIds :
            (stopRequested /\ th[t].pc = "loop") => th'[t].pc # "search"]_vars
    /\ (stopRequested ~> Returned)

C10_DistinctRootMoves ==
    (Returned /\ search.numPvLines > 1) =>
        /\ \A i \in DOMAIN outResult :
              outResult[i].move \in LegalMoves \ param.excludedMoves
        /\ \A i, j \in DOMAIN outResult :
              i # j => outResult[i].move # outResult[j].move

\* C11: for a root position with no legal move DoSearch returns a result that
\* carries score 0 (not in check) or -CheckmateValue (in check) with an empty PV.
C11_NoLegalMoveResult ==
    (Returned /\ param.numLegalMoves = 0) =>
        /\ Len(outResult) = 1
        /\ outResult[1].move = 0
        /\ outResult[1].score = IF param.isInCheck THEN -CheckmateValue ELSE 0

\* C12: not in analysis mode, with maxTime set and exactly one legal move,
\* DoSearch returns the single line <<that move>> with score 0, and no worker
\* was started (no node visited, no table touched).
C12_SingleMoveWithoutSearch ==
    (Returned /\ ~param.analysisMode /\ param.maxTimeValid /\ param.numLegalMoves = 1) =>
        /\ outResult = <<[NoLine EXCEPT !.move = 1, !.score = 0]>>
        /\ \A t \in ThreadIds : th[t] = OffThread
        /\ TTUnused

\* DoSearch returned the only legal move of a timed search that asked for more
\* than one PV line
C12_Witness ==
    /\ Returned
    /\ SingleMoveShortcut(param)
    /\ param.numPvLines > 1
    /\ Len(outResult) = 1
    /\ outResult[1].move = 1

(***************************************************************************)
(* Search nodes: claims                                                    *)
(***************************************************************************)
\* C13: every call of NegaMax and of QuiescenceNegaMax, nodes with a move filter
\* and singular-search nodes included, returns a score in
\* [-CheckmateValue, CheckmateValue].
C13_ReturnInRange ==
    node.pc = "returned" =>
        (node.ret >= -CheckmateValue /\ node.ret <= CheckmateValue)

\* C14: every NegaMax and QuiescenceNegaMax call of a search is entered with
\* alpha < beta and with both bounds inside the 16-bit score type: the root call
\* of every pass of AspirationWindowSearch, the node being executed, and every
\* call the node makes (null-window and full-window children, the null move,
\* the singular search, the delegations to quiescence)
WindowOk(alpha, beta) == alpha < beta /\ FitsScoreType(alpha) /\ FitsScoreType(beta)

C14_WindowAtEntry ==
    /\ asp.pc = "search" => WindowOk(asp.alpha, asp.beta)
    /\ node.fn # "none" =>
          /\ WindowOk(node.alpha, node.beta)
          /\ \A c \in node.called : WindowOk(c.alpha, c.beta)

\* a node entered at height 1 from a null-window search has made a null-window
\* search itself
C14_Witness ==
    /\ node.fn = "NegaMax"
    /\ node.height = 1
    /\ node.beta = node.alpha + 1
    /\ \E c \in node.called : c.height = 2 /\ c.beta = c.alpha + 1

\* C15: when NegaMax returns at the mate distance pruning step, the value v it
\* returns satisfies node.alpha <= v <= node.beta for the window the node was
\* entered with.
C15_MateDistanceInWindow ==
    (node.fn = "NegaMax" /\ node.pc = "returned" /\ node.exit = "mateDistance") =>
        (node.alpha <= node.ret /\ node.ret <= node.beta)

\* mate distance pruning has cut a node whose window it had to clamp
C15_Witness ==
    /\ node.fn = "NegaMax"
    /\ node.pc = "returned"
    /\ node.exit = "mateDistance"
    /\ node.height > 0
    /\ node.ret # node.alpha

(***************************************************************************)
(* Aspiration windows: claims                                              *)
(***************************************************************************)
\* C16: when some root move passes the move filter and no stop occurs, the
\* loop of AspirationWindowSearch ends after a bounded number of passes (nine
\* at most for the depths and previous scores modelled), and the line it
\* returns has an exact score strictly inside the last window searched.
C16_AspirationTerminates ==
    /\ [](asp.passes <= 9)
    /\ <>(asp.pc = "done")
    /\ [](asp.pc = "done" =>
            /\ asp.boundsType = "Exact"
            /\ asp.searchedAlpha < asp.score
            /\ asp.score < asp.searchedBeta)

\* the loop has ended after the window was widened beyond AspirationWindowMaxSize
\* on both a fail-low and a fail-high
C16_Witness ==
    /\ asp.pc = "done"
    /\ asp.window = CheckmateValue
    /\ asp.passes > 3
    /\ asp.alpha = -CheckmateValue
    /\ asp.beta = CheckmateValue

(***************************************************************************)
(* Node statistics: claims                                                 *)
(***************************************************************************)
\* C17: at an inner node every CheckStopCondition call checks the stop flag,
\* and (the flag not being set) reads the clock exactly when the number of
\* nodes the thread has visited is a multiple of 256; so a thread never visits
\* more than 256 nodes in a row without reading the clock.
C17_ClockEvery256 ==
    /\ (stats.op.name = "check" /\ stats.op.flagWas) => stats.op.result
    /\ (stats.op.name = "check" /\ ~stats.op.flagWas) =>
          (stats.op.consulted <=> stats.entries % TimeCheckPeriod = 0)
    /\ stats.sinceClock <= TimeCheckPeriod

\* C18: during a search the global node counter plus the pending counters of
\* all threads equals the number of node entries so far; a transfer made on a
\* node entry moves at least 64 nodes; after every Append the pending counter
\* is below 64, and zero if the Append moved it.
PendingSum == stats.pending[0] + stats.pending[1]

C18_StatsConserved ==
    /\ [](stats.mode # "idle" => stats.global + PendingSum = stats.entries)
    /\ [][stats.mode # "idle" /\ stats'.mode # "idle" =>
            /\ (stats'.entries = stats.entries + 1 /\ stats'.global # stats.global) =>
                  stats'.global - stats.global >= AppendBatch
            /\ \A t \in ThreadIds :
                  /\ stats'.pending[t] # stats.pending[t] => stats'.pending[t] < AppendBatch
                  /\ (stats'.global # stats.global /\ stats'.pending[t] # stats.pending[t])
                        => stats'.pending[t] = 0]_vars

(***************************************************************************)
(* Score re-biasing: claims                                                *)
(***************************************************************************)
\* C19: a score s in (-CheckmateValue, CheckmateValue) written at height h and
\* read at the same height comes back as s; a score with |s| < KnownWinValue is
\* stored unchanged; a mate score written at height h1 and read at height h2 is
\* moved by h2 - h1 away from the mate and stays inside
\* (-CheckmateValue, CheckmateValue).
RoundTrip ==
    rebias.h1 = rebias.h2 => rebias.ttScore = rebias.score

StoredUnchanged ==
    Abs(rebias.score) < KnownWinValue => rebias.stored = rebias.score

MateShifted ==
    /\ rebias.score > 0 => rebias.ttScore = rebias.score - (rebias.h2 - rebias.h1)
    /\ rebias.score < 0 => rebias.ttScore = rebias.score + (rebias.h2 - rebias.h1)

InsideMateRange ==
    rebias.ttScore > -CheckmateValue /\ rebias.ttScore < CheckmateValue

DeltaIndicesDistinct(passes) ==
    \A k \in passes :
        /\ {accumDeltaIndexTable(k \div 384, (k \div 64) % 6, k % 64, squareB) :
                squareB \in DeltaLoopTargets(k)}
           = DeltaStart(k)..(DeltaStart(k + 1) - 1)
        /\ DeltaStart(k + 1) - DeltaStart(k) = Cardinality(DeltaLoopTargets(k))
        /\ DeltaStart(k + 1) < NoDeltaIndex

SameSign(a, b) == (a < 0 /\ b < 0) \/ (a = 0 /\ b = 0) \/ (a > 0 /\ b > 0)

SeeAgain(treshold) ==
    StaticExchangeEvaluation(see.board, see.stm, see.from, see.to, treshold)

\* C22 as stated: a call that returns true for a treshold returns true for
\* every higher treshold of the same sign.
C22_TrueForHigher ==
    (see.pc = "done" /\ see.ret) =>
        \A t \in SeeTresholds :
            (t > see.treshold /\ SameSign(t, see.treshold)) => SeeAgain(t)

\* C22: StaticExchangeEvaluation is monotone in the treshold, downwards: a call
\* that returns true for a treshold returns true for every lower treshold
\* (and one that returns false returns false for every higher one).
C22_TrueForLower ==
    see.pc = "done" =>
        /\ see.ret => \A t \in SeeTresholds : t < see.treshold => SeeAgain(t)
        /\ ~see.ret => \A t \in SeeTresholds : t > see.treshold => ~SeeAgain(t)

\* a capture that passes treshold 1 after two passes of the loop and fails the
\* higher treshold 101
C22_Witness ==
    /\ see.pc = "done"
    /\ see.ret
    /\ see.treshold = 1
    /\ Len(see.swaps) = 4
    /\ ~SeeAgain(101)
    /\ SeeAgain(0)
\* the exchange on f.to played out: what the side to move gains at best when
\* the piece standing there is worth onSquare, each side taking with its least
\* valuable attacker (a king only when nothing defends the square) or stopping
RECURSIVE SwapGain(_, _, _, _)
SwapGain(f, side, occupied, onSquare) ==
    LET present == {x \in f.board : x.s \in occupied /\ x.s # f.to}
        Attacking(c) == {x \in present : x.c = c /\ x.s \in GetAttackers(present, f.to)}
        mine == Attacking(side)
    IN IF mine = {} THEN 0
       ELSE LET x == CHOOSE x \in mine :
                        \A y \in mine : x.p < y.p \/ (x.p = y.p /\ x.s <= y.s)
            IN IF x.p = King /\ Attacking(GetOppositeColor(side)) # {} THEN 0
               ELSE Max(0, onSquare - SwapGain(f, GetOppositeColor(side), occupied \ {x.s},
                                               c_seePieceValues(x.p)))

\* the balance of the swap list of the move
SwapBalance(f) ==
    c_seePieceValues(SidePieceAt(f.board, GetOppositeColor(f.stm), f.to))
    - SwapGain(f, GetOppositeColor(f.stm), Occupied(f.board) \ {f.from},
               c_seePieceValues(SidePieceAt(f.board, f.stm, f.from)))

\* C23: StaticExchangeEvaluation gives every piece of the exchange (the piece
\* taken, the piece moved, every least valuable attacker that takes back) its
\* value of P=100, N=300, B=300, R=500, Q=900, K=max, and returns whether the
\* balance of the swap list reaches the treshold.
C23_ValuesAndResult ==
    see.pc = "done" =>
        /\ \A i \in 1..Len(see.swaps) :
              see.swaps[i].value = c_seePieceValues(see.swaps[i].piece)
        /\ see.ret <=> (SwapBalance(see) >= see.treshold)
(***************************************************************************)
(* The search path: claims.                                                *)
(***************************************************************************)
\* a move of the loop of NegaMax has just been searched
MoveSearched == walk.fn = "NegaMax" /\ walk.lastMove # <<>>

SearchKinds(m) == [i \in 1..Len(m.searches) |-> m.searches[i].kind]

HasSearch(m, kind) == \E i \in 1..Len(m.searches) : m.searches[i].kind = kind

ScoreOfSearch(m, kind) ==
    (CHOOSE x \in {m.searches[i] : i \in 1..Len(m.searches)} : x.kind = kind).score

\* C24: for every move of NegaMax that is searched, the reduced null-window
\* search runs first iff the reduction is positive, which needs a move after
\* the first; the full-depth null-window search runs iff the reduced search
\* beat alpha, or there was none and the move is not the first of a PV node;
\* the full-window search runs last, at a PV node only, iff the move is the
\* first or the result before it lies strictly between alpha and beta; one
\* search at least runs and the score of the move is that of the last one.
C24_SearchProtocol ==
    MoveSearched =>
        LET m == walk.lastMove
            isPvNode == walk.beta - walk.alpha # 1
            reduced == HasSearch(m, "reduced")
            full == HasSearch(m, "full")
            pv == HasSearch(m, "pv")
            before == IF full THEN ScoreOfSearch(m, "full")
                      ELSE ScoreOfSearch(m, "reduced")
            NullWindowAt(x, depth) ==
                /\ x.call.alpha = -m.alpha - 1
                /\ x.call.beta = -m.alpha
                /\ x.call.depth = depth
        IN /\ reduced <=> m.depthReduction > 0
           /\ reduced => m.moveIndex > 1
           /\ full <=> IF reduced THEN ScoreOfSearch(m, "reduced") > m.alpha
                       ELSE ~(isPvNode /\ m.moveIndex = 1)
           /\ pv <=> /\ isPvNode
                     /\ \/ m.moveIndex = 1
                        \/ before > m.alpha /\ before < m.beta
           /\ SearchKinds(m) \in {<<"reduced">>, <<"full">>, <<"pv">>, <<"reduced", "full">>,
                                  <<"full", "pv">>, <<"reduced", "full", "pv">>}
           /\ m.score = m.searches[Len(m.searches)].score
           /\ walk.bestValue >= m.score
           /\ \A i \in 1..Len(m.searches) :
                 LET x == m.searches[i] IN
                 /\ x.kind = "reduced" =>
                       NullWindowAt(x, m.depth + m.extension - 1 - m.depthReduction)
                 /\ x.kind = "full" => NullWindowAt(x, m.depth + m.extension - 1)
                 /\ x.kind = "pv" => /\ x.call.alpha = -m.beta
                                     /\ x.call.beta = -m.alpha
                                     /\ x.call.depth = m.depth + m.extension - 1

\* a later move of a PV node goes through the three searches
C24_Witness ==
    /\ MoveSearched
    /\ walk.lastMove.moveIndex > 1
    /\ SearchKinds(walk.lastMove) = <<"reduced", "full", "pv">>

\* the entries the frame's own NegaMax call has written at 'site'
WritesAt(site) ==
    {walk.writes[i] : i \in {j \in 1..Len(walk.writes) : walk.writes[j].site = site}}

\* C25: the entry NegaMax writes after its move loop has bounds Lower when
\* bestValue >= beta, Exact when bestValue is above the alpha the node was
\* entered with (also when repetition detection or mate-distance pruning raised
\* the alpha of the loop), and Upper otherwise; a node entered with a null
\* window never stores Exact bounds with that write.
C25_BoundsAfterLoop ==
    walk.fn = "NegaMax" =>
        \A w \in WritesAt("moves") :
            /\ w.bounds = IF walk.bestValue >= walk.b THEN "Lower"
                          ELSE IF walk.bestValue > walk.alpha THEN "Exact"
                          ELSE "Upper"
            /\ walk.beta - walk.alpha = 1 => w.bounds # "Exact"

\* a node entered with a null window stored a value above its alpha
C25_Witness ==
    /\ walk.fn = "NegaMax"
    /\ walk.beta - walk.alpha = 1
    /\ walk.height > 0
    /\ walk.bestValue > walk.alpha
    /\ WritesAt("moves") # {}

\* C25 as stated: no entry that a NegaMax call entered with a null window
\* writes has Exact bounds.
C25_NullWindowNeverExact ==
    (walk.fn = "NegaMax" /\ walk.beta - walk.alpha = 1) =>
        \A i \in 1..Len(walk.writes) : walk.writes[i].bounds # "Exact"

\* C26: no entry is written to the transposition table once mStopSearch is
\* set: every call of TranspositionTable::Write that NegaMax or
\* QuiescenceNegaMax makes for its node finds the flag clear, in particular
\* after a child search that returned with the flag set.
C26_NoWriteAfterStop ==
    \A i \in 1..Len(walk.writes) : ~walk.writes[i].stopped

\* C27: a NegaMax call in which the move filter skipped a move writes no entry
\* for its position, and neither its best move nor the first move of its PV
\* line is a move the filter skipped; without a searched move it returns
\* -InfValue.
C27_FilteredCall ==
    (walk.fn = "NegaMax" /\ walk.filteredSomeMove) =>
        /\ walk.hasMoveFilter
        /\ walk.skipped # {}
        /\ walk.writes = <<>>
        /\ walk.bestMove \notin walk.skipped
        /\ walk.pvMove \notin walk.skipped
        /\ (walk.pc = "returned" /\ walk.exit = "noMove") => walk.ret = -InfValue

\* a call that skipped a move and searched another has returned from its loop
C27_Witness ==
    /\ walk.fn = "NegaMax"
    /\ walk.pc = "returned"
    /\ walk.exit = "moves"
    /\ walk.filteredSomeMove
    /\ walk.bestMove # 0
    /\ walk.bestValue > walk.alpha
    /\ ~mStopSearch

\* C28: a null move is tried only at a node that is not a PV node, is not in
\* check, has no move filter, has depth >= 2 and non-pawn material for the
\* side to move, was not reached by a null move and whose parent was not
\* reached by one; on every path at least two real moves lie between two null
\* moves, and the node after the null move is not in check.
C28_NullMoveGuards ==
    /\ (walk.fn = "NegaMax" /\ walk.nullMove # <<>>) =>
          /\ ~WalkIsPvNode(walk)
          /\ ~walk.isInCheck
          /\ ~walk.nullMove.isInCheck
          /\ ~walk.hasMoveFilter
          /\ walk.nullMove.depth >= NullMoveReductionsStartDepth
          /\ walk.nullMove.hasNonPawnMaterial
          /\ ~walk.isNullMove
          /\ ~walk.parentIsNullMove
          /\ walk.sinceNull >= 2
          /\ walk.nullMove.child.isNullMove
          /\ walk.nullMove.child.height = walk.height + 1
    /\ walk.isNullMove => (walk.sinceNull = 0 /\ (walk.fn = "NegaMax" => ~walk.isInCheck))
    /\ walk.fn = "QuiescenceNegaMax" => walk.nullMove = <<>>

\* a second null move on a path, two real moves after the first
C28_Witness ==
    /\ walk.fn = "NegaMax"
    /\ walk.nullMove # <<>>
    /\ walk.sinceNull = 2

\* what is left of a path below a call of NegaMax: its depth, and two plies
\* for every height at which a move can still be extended
Measure(height, depth, rootDepth) == depth + 2 * Max(0, 2 * rootDepth - height)

\* C29: the extension of a searched move is in 0..2 and is 0 from height
\* 2 * rootDepth on; the reduction is in 0..depth + extension - 1 and at most
\* MaxDepthReduction; every child of a move is searched at a depth from 0 to
\* the parent's depth + 1, and at most the parent's depth - 1 from height
\* 2 * rootDepth on.  Every call NegaMax makes of NegaMax has a smaller
\* measure than the caller at its entry, every frame in its move loop has
\* depth >= 1 and the sum of depth, height and extendable plies never exceeds
\* 5 * rootDepth: the recursion ends and a path is in quiescence before height
\* 5 * rootDepth.
C29_ExtensionsAndTermination ==
    walk.fn = "NegaMax" =>
        /\ MoveSearched =>
              LET m == walk.lastMove IN
              /\ m.extension \in 0..2
              /\ walk.height >= 2 * walk.rootDepth => m.extension = 0
              /\ m.depthReduction \in 0..(m.depth + m.extension - 1)
              /\ m.depthReduction <= MaxDepthReduction
              /\ m.depth <= walk.entryDepth
              /\ \A i \in 1..Len(m.searches) :
                    LET d == m.searches[i].call.depth IN
                    /\ d >= 0
                    /\ d <= m.depth + 1
                    /\ walk.height >= 2 * walk.rootDepth => d <= m.depth - 1
        /\ \A c \in walk.called :
              c.fn = "NegaMax" =>
                  /\ Measure(c.height, c.depth, walk.rootDepth)
                        < Measure(walk.height, walk.entryDepth, walk.rootDepth)
                  /\ c.depth <= walk.entryDepth + 1
                  /\ c.height \in {walk.height, walk.height + 1}
        /\ walk.pc = "moves" => walk.depth >= 1
        /\ Measure(walk.height, walk.entryDepth, walk.rootDepth) + walk.height
              <= 5 * walk.rootDepth
        /\ walk.pc = "moves" => walk.height < 5 * walk.rootDepth

\* a move is searched at a height where extensions are switched off, below a
\* parent that was extended
C29_Witness ==
    /\ walk.fn = "NegaMax"
    /\ MoveSearched
    /\ walk.height >= 2 * walk.rootDepth
    /\ walk.entryDepth >= walk.rootDepth
    /\ \E i \in 1..Len(walk.lastMove.searches) :
          walk.lastMove.searches[i].call.depth = walk.lastMove.depth - 1

\* the call has returned from or after its move loop, and the loop was not
\* aborted
LoopEnded ==
    /\ walk.pc = "returned"
    /\ walk.exit \in {"moves", "noMove", "cutoff"}
    /\ ~walk.searchAborted

\* C30: when the move loop of NegaMax ends without abort, no move was legal
\* and none was skipped by the filter, NegaMax returns -CheckmateValue + height
\* for a side in check and 0 otherwise, and the last entry it wrote for the
\* position has that value, Exact bounds and the depth INT8_MAX; when the move
\* loop of QuiescenceNegaMax ends without abort for a side in check that had no
\* legal move, it returns -CheckmateValue + height.
C30_NoLegalMove ==
    (LoopEnded /\ walk.moveIndex = 0) =>
        /\ (walk.fn = "NegaMax" /\ ~walk.filteredSomeMove) =>
              /\ walk.ret = IF walk.isInCheck THEN -CheckmateValue + walk.height ELSE 0
              /\ walk.writes # <<>>
              /\ LET w == walk.writes[Len(walk.writes)] IN
                 /\ w.site = "noMove"
                 /\ w.score = walk.ret
                 /\ w.bounds = "Exact"
                 /\ w.depth = SentinelDepth
        /\ (walk.fn = "QuiescenceNegaMax" /\ walk.isInCheck) =>
              /\ walk.ret = -CheckmateValue + walk.height
              /\ walk.writes = <<>>

\* a checkmated node below the root
C30_Witness ==
    /\ LoopEnded
    /\ walk.fn = "NegaMax"
    /\ walk.moveIndex = 0
    /\ walk.picked > 0
    /\ ~walk.filteredSomeMove
    /\ walk.isInCheck
    /\ walk.height > 1
    /\ walk.ret = -CheckmateValue + walk.height

\* C31: a NegaMax call below the root whose position is a draw by the half-move
\* clock, by material or by repetition returns 0 at every depth, and has made
\* no call of QuiescenceNegaMax and no write to the transposition table.
C31_DrawFirst ==
    (walk.fn = "NegaMax" /\ walk.height > 0 /\ walk.pc = "returned"
       /\ walk.draw # "none") =>
        /\ walk.ret = 0
        /\ walk.called = {}
        /\ walk.writes = <<>>

(***************************************************************************)
(* The iterative deepening loop: more claims                               *)
(***************************************************************************)
\* C32: whenever a thread searches the root for a PV index, some legal root
\* move is outside its filter (the excluded moves of the caller and the first
\* moves of the lines found so far in the iteration), and the pass returns a
\* line that starts with a move, with a score other than -InfValue.
C32_RootMoveAvailable ==
    \A t \in ThreadIds :
        /\ th[t].pc \in {"search", "aspCheck"} =>
              RootCandidates(th[t].pvMovesSoFar) # {}
        /\ th[t].pc = "aspCheck" =>
              /\ th[t].pvLine.move # 0
              /\ th[t].pvLine.score # -InfValue

C35_PonderOnlyExternalStop ==
    (loop.pc \in {"running", "done"} /\ loop.param.isPonder) =>
        loop.cause \in {"none", "external"}

\* C34: while the threads run, no helper thread is inside a call on outResult,
\* no two threads are inside calls on it at once, no helper changes it, and no
\* line of the result is written by a helper.
C34_MainThreadOnly ==
    res.pc \in {"running", "done"} =>
        /\ \A t \in ResultThreads \ {0} : res.th[t].pc \notin {"resizing", "writing"}
        /\ ~res.raced
        /\ ~res.helperModified
        /\ \A i \in 1..Len(res.lines) : res.lines[i] # "helper"

(***************************************************************************)
(* Node cache: more claims                                                 *)
(***************************************************************************)
\* the least count of the slots
MinCount(moves) ==
    CHOOSE n \in {moves[i].nodesSearched : i \in CacheSlots} :
        \A i \in CacheSlots : n <= moves[i].nodesSearched

\* C36: after any sequence of AddMoveStats, ScaleDown and SetBestMove calls
\* nodesSum is the sum of the counts of the slots and no valid move is in two
\* slots; an AddMoveStats call with a new move on a full entry puts the move
\* with its count into a slot that held the least count if that count is below
\* the new one, and else leaves the entry as it was.
C36_EntryInvariant ==
    /\ cache.nodesSum = SumFrom(cache.moves, 1)
    /\ \A i, j \in CacheSlots :
          (i # j /\ cache.moves[i].move # 0) => cache.moves[i].move # cache.moves[j].move
    /\ LET c == cache.call IN
       (/\ c.op = "AddMoveStats"
        /\ \A i \in CacheSlots : c.before[i].move \notin {0, c.move}) =>
           IF MinCount(c.before) < c.numNodes
           THEN \E i \in CacheSlots :
                   /\ c.before[i].nodesSearched = MinCount(c.before)
                   /\ cache.moves[i].move = c.move
                   /\ cache.moves[i].nodesSearched = c.numNodes
                   /\ \A j \in CacheSlots \ {i} : cache.moves[j] = c.before[j]
           ELSE cache.moves = c.before

\* a new move has replaced the least-visited move of a full entry whose other
\* move has a lower count than the new move too
C36_Witness ==
    LET c == cache.call IN
    /\ c.op = "AddMoveStats"
    /\ \A i \in CacheSlots : c.before[i].move \notin {0, c.move}
    /\ \A i \in CacheSlots : c.before[i].nodesSearched < c.numNodes
    /\ \E i \in CacheSlots : c.before[i].nodesSearched > MinCount(c.before)
    /\ cache.moves # c.before

\* C38: a slot has its best-move bit set only if SetBestMove was called for the
\* move that the slot holds.
C38_BestBitOfMarkedMove ==
    \A i \in CacheSlots : cache.moves[i].isBestMove => cache.moves[i].move \in cache.bestCalled

\* C37: GetEntry(pos) returns the entry of slot hash % Size with its statistics
\* and the current generation if the slot holds pos; else it re-initialises the
\* slot for pos exactly when the generation of the slot is older than the
\* current one; it returns null and leaves the slot as it is only when the slot
\* holds another position of the current generation.
C37_GetEntry ==
    LET c == slots.call
        entry == slots.entries[c.index]
    IN c.op = "GetEntry" =>
          IF c.before.position = c.pos
          THEN /\ c.found
               /\ entry = [c.before EXCEPT !.generation = slots.generation,
                                           !.distanceFromRoot = c.distanceFromRoot]
          ELSE IF c.before.generation < slots.generation
          THEN /\ c.found
               /\ entry = [NoCachePosition EXCEPT !.position = c.pos,
                                                  !.generation = slots.generation,
                                                  !.distanceFromRoot = c.distanceFromRoot]
          ELSE /\ ~c.found
               /\ entry = c.before
               /\ c.before.position \in CachePositions \ {c.pos}
               /\ c.before.generation = slots.generation

(***************************************************************************)
(* Time manager: claims                                                    *)
(***************************************************************************)
\* C39: after an update that has a previous iteration and a valid base time,
\* the stability counter is the number of most recent iterations in a row whose
\* first move was that of the iteration before, it enters the factor as
\* min(12, stability), and the current ideal time is the base time multiplied
\* by the three factors of this update only.
C39_Stability ==
    tm.updated =>
        /\ tm.stabilityCounter = tm.stability
        /\ tm.capped = Min(12, tm.stability)
        /\ tm.idealTimeCurrent =
              <<tm.idealTimeBase, StabilityTimeFactor(tm.stabilityCounter),
                ScoreChangeFactor(tm.scoreChange), NodeCountFactor(tm.fraction)>>

====
